---- MODULE Spec2Model ----
(***************************************************************************)
(* Model of the AUTOOS execution engine: the workflow Orchestrator         *)
(* (orchestration/orchestrator.py), the AgentManager it spawns agents      *)
(* through (orchestration/agent_manager.py), the workflow snapshot kept in *)
(* WorkingMemory and the workflow record kept in SessionMemory.            *)
(*                                                                         *)
(* Spec        : execute_workflow runs on one Workflow object, with        *)
(*               pause / resume / cancel / persist calls interleaved.      *)
(* SpecFailure : handle_failure called on its own with any error text.     *)
(* SpecManager : spawn_agent / retire_agent / replace_agent called on one  *)
(*               AgentManager from several threads, with Redis commands of *)
(*               the working memory and the event bus that can fail.       *)
(* SpecTool    : ToolExecutor.execute_tool (execution/tool_executor.py)    *)
(*               called with any tool, parameters and agent, as time       *)
(*               passes.                                                   *)
(* SpecFabric  : route_task / call_llm / execute_with_fallback called on   *)
(*               one IntelligenceFabric                                    *)
(*               (execution/intelligence_fabric.py), whose registry also   *)
(*               takes register_provider calls.                            *)
(* SpecVerify  : IntelligenceFabric.cross_verify called with any list of   *)
(*               responses.                                                *)
(* SpecFeedback: call_llm called from several threads on one provider,     *)
(*               each call cut at its reads and writes of the provider's   *)
(*               scoreboard.                                               *)
(* SpecWebhook : StripeWebhookHandler.handle_webhook                       *)
(*               (payment/webhook_handler.py) called with any event.       *)
(* SpecEventBus: EventBus.publish and EventBus.consume                     *)
(*               (infrastructure/event_bus.py) on one stream and one       *)
(*               consumer group of a Redis server.                         *)
(*                                                                         *)
(* An error text is a sequence of tokens; `kw in str(error).lower()` is    *)
(* modelled by Contains, which looks for the keyword inside every token    *)
(* (and across two tokens for the two-word keyword "rate limit").          *)
(*                                                                         *)
(* Numbers of the fabric are exact multiples of a unit: a reliability      *)
(* score is counted in hundredths (1.0 is 100), a cost per token in        *)
(* units of 0.00000025, a latency in units of 10^-MaxFabricCalls seconds,  *)
(* so that every `* 0.9` of the model's calls is exact.                    *)
(***************************************************************************)
EXTENDS Integers, Sequences, FiniteSets, TLC

\* ------------------------------------------------------------------ bounds
\* AgentManager(max_concurrent_agents=...): the ceiling of this deployment.
MaxConcurrentAgents == 2
\* Largest retry_config.max_attempts a step of the model is given.
MaxAttempts == 2
\* Number of execute_workflow calls made on the workflow object.
MaxRuns == 2
\* Number of pause / resume / cancel / persist calls made by other callers.
MaxControlCalls == 2
\* Longest error text, in tokens, handed to handle_failure on its own.
MaxTextLen == 2
\* Threads calling the AgentManager at the same time.
MaxThreads == 2
\* Number of spawn_agent / retire_agent / replace_agent calls they make.
MaxManagerCalls == 4
\* Number of Redis commands of the working memory and the event bus that fail
\* during those calls.
MaxRedisErrors == 1
\* Number of execute_tool calls made on the ToolExecutor.
MaxToolCalls == 3
\* Number of half minutes that pass between those calls.
MaxTicks == 2
\* Number of calls made on the IntelligenceFabric and its registry.
MaxFabricCalls == 3
\* Longest list of responses handed to cross_verify.
MaxResponses == 3
\* Longest response text, in characters.
MaxResponseLen == 3
\* Number of call_llm calls the threads make on the one provider.
MaxFeedbackCalls == 3
\* Number of events published on the stream.
MaxEvents == 3
\* Number of consume calls made on the subscription.
MaxConsumes == 3

\* ------------------------------------------------------------- data model
\* WorkflowState (core/models.py)
WorkflowStates == {"pending", "running", "paused", "completed", "failed", "cancelled"}

\* RetryConfig defaults (core/models.py); the times are whole seconds.
BackoffMultiplier == 2
InitialDelaySeconds == 1
MaxDelaySeconds == 60

\* RetryConfig(max_attempts=..., max_delay_seconds=...)
RetryConfig(attempts, max_delay) ==
  [max_attempts |-> attempts, backoff_multiplier |-> BackoffMultiplier,
   initial_delay_seconds |-> InitialDelaySeconds, max_delay_seconds |-> max_delay]

\* WorkflowStep: the fields the orchestrator reads.
WorkflowStep(deps, retry_config) == [dependencies |-> deps, retry_config |-> retry_config]

\* Workflow objects a caller hands to execute_workflow.
\*   1: the linear workflow A -> B -> C, every step with the largest
\*      max_attempts of the model;
\*   2: a group of two steps followed by a step that depends on both; the id
\*      of the first step contains the word "tool", and the second step caps
\*      its retry delay at 3 seconds;
\*   3: B scheduled before the A it depends on (nothing in Workflow or in
\*      execute_workflow validates execution_order against dependencies), and
\*      A with max_attempts = 0;
\*   4: Workflow() with its defaults: no steps, an empty execution_order.
WorkflowShape(k) ==
  CASE k = 1 -> [steps |-> [s \in {"A", "B", "C"} |->
                    WorkflowStep(IF s = "A" THEN {} ELSE IF s = "B" THEN {"A"} ELSE {"B"},
                                 RetryConfig(MaxAttempts, MaxDelaySeconds))],
                 execution_order |-> << <<"A">>, <<"B">>, <<"C">> >>]
    [] k = 2 -> [steps |-> [s \in {"tool_fetch", "B", "C"} |->
                    WorkflowStep(IF s = "C" THEN {"tool_fetch", "B"} ELSE {},
                                 IF s = "B" THEN RetryConfig(MaxAttempts, 3)
                                 ELSE RetryConfig(1, MaxDelaySeconds))],
                 execution_order |-> << <<"tool_fetch", "B">>, <<"C">> >>]
    [] k = 3 -> [steps |-> [s \in {"A", "B"} |->
                    WorkflowStep(IF s = "B" THEN {"A"} ELSE {},
                                 RetryConfig(IF s = "B" THEN 1 ELSE 0, MaxDelaySeconds))],
                 execution_order |-> << <<"B">>, <<"A">> >>]
    [] k = 4 -> [steps |-> << >>, execution_order |-> << >>]

Shapes == 1..4

\* Workflow(...) as constructed by a caller: state defaults to PENDING.
Workflow(k) ==
  [workflow_id |-> "wf", steps |-> WorkflowShape(k).steps,
   execution_order |-> WorkflowShape(k).execution_order,
   state |-> "pending", metadata |-> "meta"]

\* ---------------------------------------------------------------- texts
None == << >>

\* Errors a step attempt can raise.
ErrorTexts == { <<"model", "timeout">>, <<"llm", "unavailable">>, <<"tool", "crashed">> }

\* f"Step {step_id} failed after all recovery attempts"
EscalationText(step_id) ==
  <<"Step", step_id, "failed", "after", "all", "recovery", "attempts">>

\* f"Maximum concurrent agents ({self.max_concurrent_agents}) reached"
CapacityText == <<"Maximum", "concurrent", "agents", "reached">>

\* str(TypeError) of `raise None`
RaiseNoneText == <<"exceptions", "must", "derive", "from", "BaseException">>

\* The classifier's keywords that occur inside one lower-cased token.
KeywordsInToken(tok) ==
  CASE tok = "timeout" -> {"timeout"}
    [] tok = "quota" -> {"quota"}
    [] tok = "policy" -> {"policy"}
    [] tok = "unauthorized" -> {"unauthorized"}
    [] tok = "model" -> {"model"}
    [] tok = "llm" -> {"llm"}
    [] tok = "tool" -> {"tool"}
    [] tok = "tool_fetch" -> {"tool"}
    [] OTHER -> {}

\* str.lower() on one token
Lower(tok) ==
  CASE tok = "Step" -> "step"
    [] tok = "Timeout" -> "timeout"
    [] tok = "LLM" -> "llm"
    [] tok = "Maximum" -> "maximum"
    [] tok = "BaseException" -> "baseexception"
    [] OTHER -> tok

\* `kw in error_str` for error_str = str(error).lower()
Contains(text, kw) ==
  IF kw = "rate limit"
  THEN \E i \in 1..(Len(text) - 1) : Lower(text[i]) = "rate" /\ Lower(text[i + 1]) = "limit"
  ELSE \E i \in 1..Len(text) : kw \in KeywordsInToken(Lower(text[i]))

\* _classify_failure with the model/llm test moved in front of the others
ClassifyFailureModelFirst(text) ==
  IF Contains(text, "model") \/ Contains(text, "llm") THEN "model_error"
  ELSE IF Contains(text, "timeout") THEN "timeout"
  ELSE IF Contains(text, "rate limit") \/ Contains(text, "quota") THEN "resource_exhaustion"
  ELSE IF Contains(text, "policy") \/ Contains(text, "unauthorized") THEN "policy_violation"
  ELSE IF Contains(text, "tool") THEN "tool_error"
  ELSE "unknown"

\* Orchestrator._classify_failure
ClassifyFailure(text) ==
  IF Contains(text, "timeout") THEN "timeout"
  ELSE IF Contains(text, "rate limit") \/ Contains(text, "quota") THEN "resource_exhaustion"
  ELSE IF Contains(text, "policy") \/ Contains(text, "unauthorized") THEN "policy_violation"
  ELSE IF Contains(text, "model") \/ Contains(text, "llm") THEN "model_error"
  ELSE IF Contains(text, "tool") THEN "tool_error"
  ELSE "unknown"

\* Orchestrator.handle_failure: the action_type of the RecoveryAction returned
RecoveryFor(failure_type) ==
  IF failure_type = "transient" THEN "retry"
  ELSE IF failure_type = "model_error" THEN "llm_swap"
  ELSE IF failure_type = "tool_error" THEN "agent_swap"
  ELSE "escalate"

HandleFailure(text) == RecoveryFor(ClassifyFailure(text))

\* FailureType (core/models.py)
FailureTypes ==
  {"transient", "model_error", "tool_error", "resource_exhaustion",
   "policy_violation", "timeout", "unknown"}

\* Words of the error texts a caller hands to handle_failure.
ErrorTokens ==
  {"timeout", "Timeout", "rate", "limit", "quota", "policy", "unauthorized",
   "model", "LLM", "tool", "failed"}

\* str(error) for the errors handed to handle_failure: up to MaxTextLen words.
Texts == UNION { [1..n -> ErrorTokens] : n \in 0..MaxTextLen }

\* `if recovery.action_type == "escalate": raise`
Aborts(action_type) == action_type = "escalate"

\* --------------------------------------------------------------- snapshot
NoSnapshot ==
  [exists |-> FALSE, workflow_id |-> "", state |-> "", steps |-> {},
   execution_order |-> << >>, metadata |-> ""]

\* persist_state with the workflow's state left out of the dictionary
SnapshotWithoutState(w) ==
  [exists |-> TRUE, workflow_id |-> w.workflow_id, state |-> "",
   steps |-> DOMAIN w.steps, execution_order |-> w.execution_order,
   metadata |-> w.metadata]

\* The dictionary persist_state stores under the workflow id (the steps are
\* kept by id; the timestamp is left out).
SnapshotOf(w) ==
  [exists |-> TRUE, workflow_id |-> w.workflow_id, state |-> w.state,
   steps |-> DOMAIN w.steps, execution_order |-> w.execution_order,
   metadata |-> w.metadata]

\* restore_state: None when nothing is stored under the id; otherwise the
\* Workflow rebuilt from the snapshot.  `steps` is not passed to the
\* constructor, so the rebuilt workflow has none.
RestoreState(snap) ==
  IF ~snap.exists THEN None
  ELSE [workflow_id |-> snap.workflow_id, steps |-> << >>,
        execution_order |-> snap.execution_order, state |-> snap.state,
        metadata |-> snap.metadata]

\* pause_workflow with the state test weakened to "not already paused"
CanPauseUnlessPaused(snap) == snap.exists /\ RestoreState(snap).state # "paused"

\* `if workflow and workflow.state == WorkflowState.RUNNING`
CanPause(snap) == snap.exists /\ RestoreState(snap).state = "running"

\* `if workflow and workflow.state == WorkflowState.PAUSED`
CanResume(snap) == snap.exists /\ RestoreState(snap).state = "paused"

\* ------------------------------------------------------------------ state
VARIABLES
  workflow,         \* the Workflow object held by the caller of execute_workflow
  store,            \* WorkingMemory: the persisted snapshot of the workflow
  session_status,   \* SessionMemory: status column of the workflow record
  pc,               \* where execute_workflow stands
  group, idx,       \* position in execution_order of the step being handled
  agent,            \* id of the agent spawned for the step (0: none)
  active_agents,    \* AgentManager.active_agents (ids)
  retry_count,      \* execute_step: retry_count
  last_error,       \* execute_step: last_error
  task_result,      \* the TaskResult execute_step returned
  steps_completed,  \* execute_workflow: steps_completed
  steps_failed,     \* execute_workflow: steps_failed
  results,          \* execute_workflow: results (step ids, in append order)
  wf_result,        \* the WorkflowResult returned by the last run
  started,          \* history: positions whose step was dispatched in this run
  resolved,         \* history: positions whose step was handled and left behind
  outcomes,         \* history: per position, the TaskResult's success and the attempts made
  recoveries,       \* history: what handle_failure returned, in call order
  events,           \* history: events this run published, in publish order
  control_events,   \* events published by pause / resume / cancel, per stream
  ctl,              \* the last pause / resume / cancel / persist call and its return
  cancelled_in_run, \* history: cancel_workflow was called during this run
  runs,             \* execute_workflow calls made so far
  delays,           \* history: the delays execute_step slept for the current step
  agent_log,        \* history: agents this run spawned and retired, in order
  error_text,       \* the error a caller hands to handle_failure on its own
  handled,          \* that handle_failure call: the error, its type, the event
                    \* published and the action returned
  pool,             \* AgentManager.active_agents of a manager called from several
                    \* threads: agent id -> status
  agents,           \* the Agent objects built so far (callers keep references
                    \* to them after they left active_agents): agent id -> Agent
  agent_memory,     \* WorkingMemory: ids of the agents with a memory entry
  bus,              \* EventBus: what was published on the three agent streams
                    \* (and `errors`, the Redis commands that failed so far)
  next_id,          \* the next fresh agent id (uuid4)
  th,               \* per thread: the call it is in and where it stands
  calls,            \* AgentManager calls made so far
  rate_limits,      \* ToolExecutor.rate_limits: tool name -> timestamps
  clock,            \* time.time(), in seconds
  containers,       \* history: containers run by _execute_in_container
  tool_result,      \* the last execute_tool call: its arguments and ToolResult
  tool_calls,       \* execute_tool calls made so far
  providers,        \* ModelCapabilityRegistry.providers, in registration order
  api_keys,         \* IntelligenceFabric.api_keys: provider names that have a key
  provider_instances, \* IntelligenceFabric.provider_instances: their keys
  fab,              \* the last call on the fabric: arguments, position, outcome
  fabric_calls,     \* calls made on the fabric so far
  responses,        \* the list of LLMResponse handed to cross_verify
  verification,     \* the VerificationResult cross_verify returned
  feedback,         \* call_llm from several threads: where each thread stands,
                    \* what it read, and the calls that returned or raised
  webhook,          \* the last handle_webhook call: its event and what it returned
  redis             \* the Redis stream of one event type with its consumer
                    \* group, and what consume did with each event

vars == <<workflow, store, session_status, pc, group, idx, agent, active_agents,
          retry_count, last_error, task_result, steps_completed,
          steps_failed, results, wf_result, started, resolved, outcomes, recoveries,
          events, control_events, ctl, cancelled_in_run, runs, delays, agent_log,
          error_text, handled, pool, agents, agent_memory, bus, next_id, th, calls,
          rate_limits, clock, containers, tool_result, tool_calls,
          providers, api_keys, provider_instances, fab, fabric_calls,
          responses, verification, feedback, webhook, redis>>

\* The variables of execute_workflow and of the calls made around it.
orchestratorVars ==
  <<workflow, store, session_status, pc, group, idx, agent, active_agents,
    retry_count, last_error, task_result, steps_completed,
    steps_failed, results, wf_result, started, resolved, outcomes, recoveries,
    events, control_events, ctl, cancelled_in_run, runs, delays, agent_log>>

\* The variables of the AgentManager called from several threads.
managerVars == <<pool, agents, agent_memory, bus, next_id, th, calls>>

\* The variables of the ToolExecutor.
toolVars == <<rate_limits, clock, containers, tool_result, tool_calls>>

\* The variables of the IntelligenceFabric and its registry.
fabricVars == <<providers, api_keys, provider_instances, fab, fabric_calls>>

\* The variables of a cross_verify call.
verifyVars == <<responses, verification>>

\* The variables of the threaded call_llm, of the webhook handler and of the
\* event bus on its own.
laterVars == <<feedback, webhook, redis>>

\* The variables execute_workflow and the calls around it leave alone.
otherVars ==
  <<error_text, handled, managerVars, toolVars, fabricVars, verifyVars, laterVars>>

\* The variables the AgentManager leaves alone.
notManagerVars ==
  <<orchestratorVars, error_text, handled, toolVars, fabricVars, verifyVars, laterVars>>

\* The variables the ToolExecutor leaves alone.
notToolVars ==
  <<orchestratorVars, error_text, handled, managerVars, fabricVars, verifyVars,
    laterVars>>

\* The variables route_task, call_llm, execute_with_fallback and the
\* registry leave alone.
notFabricVars ==
  <<orchestratorVars, error_text, handled, managerVars, toolVars, verifyVars, laterVars>>

\* The variables cross_verify leaves alone.
notVerifyVars ==
  <<orchestratorVars, error_text, handled, managerVars, toolVars, fabricVars, laterVars>>

Threads == 1..MaxThreads

\* TrustLevel (core/models.py), lowest first
TrustLevels == <<"restricted", "standard", "elevated", "privileged">>

\* check_authorization: the number it gives a trust level
TrustRank(trust_level) ==
  CASE trust_level = "restricted" -> 1
    [] trust_level = "standard" -> 2
    [] trust_level = "elevated" -> 3
    [] trust_level = "privileged" -> 4
    [] OTHER -> 0

\* check_authorization: `"all" in allowed_tools or tool_name in allowed_tools`
ToolAllowed(allowed_tools, tool_name) ==
  \E i \in 1..Len(allowed_tools) : allowed_tools[i] = "all" \/ allowed_tools[i] = tool_name

\* No arguments of spawn_agent.
NoArgs == [capabilities |-> << >>, trust_level |-> "", goal |-> ""]

\* A thread that is in no AgentManager call.  `args` are the arguments of the
\* spawn_agent call it is in; `solo` and `active` are history: the number of
\* the replace_agent call if it was made while every other thread was
\* outside the manager, and the number of active agents at that moment.
Idle ==
  [pc |-> "idle", op |-> "none", target |-> 0, new |-> 0, reason |-> "", ret |-> "",
   args |-> NoArgs, solo |-> 0, active |-> 0]

\* No handle_failure call has been made on its own.
NotHandled ==
  [text |-> None, failure_type |-> "", event |-> None, action |-> ""]

\* `results` before its first assignment (it is assigned inside the group loop)
Unbound == << "<unbound>" >>

NoResult == [success |-> FALSE, errors |-> << >>]
NoWorkflowResult ==
  [returned |-> FALSE, success |-> FALSE, steps_completed |-> 0, steps_failed |-> 0]

\* A freshly constructed Workflow, Orchestrator, WorkingMemory and
\* SessionMemory record.
InitOrchestrator ==
  /\ \E k \in Shapes : workflow = Workflow(k)
  /\ store = NoSnapshot
  /\ session_status = "pending"
  /\ pc = "idle"
  /\ group = 1 /\ idx = 1
  /\ agent = 0
  /\ active_agents = {}
  /\ retry_count = 0
  /\ last_error = None
  /\ task_result = NoResult
  /\ steps_completed = 0 /\ steps_failed = 0
  /\ results = Unbound
  /\ wf_result = NoWorkflowResult
  /\ started = {} /\ resolved = {} /\ outcomes = {}
  /\ recoveries = << >>
  /\ events = << >>
  /\ control_events = [paused |-> 0, resumed |-> 0, cancelled |-> 0]
  /\ ctl = [n |-> 0, op |-> "none", ret |-> FALSE]
  /\ cancelled_in_run = FALSE
  /\ runs = 0
  /\ delays = << >>
  /\ agent_log = << >>

\* AgentManager.__init__: no agent, nothing stored or published, no call made.
InitManager ==
  /\ pool = << >>
  /\ agents = << >>
  /\ agent_memory = {}
  /\ bus = [spawned |-> {}, retired |-> {}, replaced |-> {}, errors |-> 0]
  /\ next_id = 1
  /\ th = [t \in Threads |-> Idle]
  /\ calls = 0

\* No execute_tool call has been made.
NoToolResult ==
  [tool |-> "", required_trust_level |-> "", agent |-> NoArgs, success |-> FALSE,
   error |-> "", called |-> FALSE]

\* ToolExecutor.__init__: no timestamps, no container run, no call made.
InitTool ==
  /\ rate_limits = << >>
  /\ clock = 0
  /\ containers = << >>
  /\ tool_result = NoToolResult
  /\ tool_calls = 0

\* LLMProvider(...): the fields the registry reads and writes
LLMProvider(provider_name, model_name, cost_per_token, reliability_score) ==
  [provider_name |-> provider_name, model_name |-> model_name,
   cost_per_token |-> cost_per_token, avg_latency |-> 0,
   reliability_score |-> reliability_score]

\* LLMProvider.reliability_score's default, 1.0
FullReliability == 100

\* _initialize_providers: default_providers
DefaultProviders ==
  << LLMProvider("openai", "gpt-4", 120, FullReliability),
     LLMProvider("openai", "gpt-3.5-turbo", 8, FullReliability),
     LLMProvider("anthropic", "claude-3-opus-20240229", 60, FullReliability),
     LLMProvider("anthropic", "claude-3-haiku-20240307", 1, FullReliability) >>

\* No call has been made on the fabric (`result` is the key of the provider
\* chosen or of the provider whose response is returned).
NoFabricCall ==
  [op |-> "none", role |-> "", pc |-> "idle", ranked |-> << >>, i |-> 0,
   tried |-> << >>, result |-> None, error |-> "", last_error |-> ""]

\* IntelligenceFabric(api_keys): the four default providers registered, no
\* provider instance created.
InitFabricWith(keys) ==
  /\ providers = DefaultProviders
  /\ api_keys = keys
  /\ provider_instances = {}
  /\ fab = NoFabricCall
  /\ fabric_calls = 0

\* The caller gave keys for any of the providers.
InitFabric == \E keys \in SUBSET {"openai", "anthropic"} : InitFabricWith(keys)

\* No cross_verify call has been made.
NoVerification ==
  [called |-> FALSE, consensus |-> FALSE, selected_response |-> 0,
   discrepancies |-> << >>, confidence |-> 0]

\* A caller holds a list of responses for cross_verify.
InitVerifyWith(list) ==
  /\ responses = list
  /\ verification = NoVerification

\* No thread is in call_llm; handle_webhook has not been called; a Redis
\* server with an empty stream on which subscribe created the consumer group.
InitLater ==
  /\ feedback = [th |-> [t \in Threads |-> [pc |-> "idle", success |-> FALSE, read |-> 0]],
                 succeeded |-> 0, failed |-> 0]
  /\ webhook = [called |-> FALSE, event |-> [type |-> "", keys |-> {}], status |-> "",
                handler |-> "", result |-> "", error |-> ""]
  /\ redis = [stream |-> 0, last_delivered |-> 0, pending |-> {}, deliveries |-> << >>,
              consumes |-> 0, read_failed |-> FALSE, read |-> {}, raised |-> {},
              processed |-> 0]

\* Everything but the orchestrator is left unused: a fabric without API
\* keys, no responses to verify.
InitUnused ==
  /\ InitManager
  /\ InitTool
  /\ InitFabricWith({})
  /\ InitVerifyWith(<< >>)
  /\ InitLater
  /\ error_text = None
  /\ handled = NotHandled

Init ==
  /\ InitOrchestrator
  /\ InitUnused

\* The states of Init in which the orchestrator holds Workflow(), for the
\* specifications of the other components.
InitOther == Init /\ workflow = Workflow(4)

\* ------------------------------------------------------------ agents
\* str(uuid.uuid4()): an id no active agent has
NewAgentId(active) == CHOOSE n \in 1..(Cardinality(active) + 1) : n \notin active

\* AgentManager.retire_agent: an unknown id is a no-op
RetireAgent(active, agent_id) == active \ {agent_id}

\* The capacity test letting a spawn through when the ceiling is just reached
AboveCapacity(active_count) == active_count > MaxConcurrentAgents

\* `if len(self.active_agents) >= self.max_concurrent_agents`
AtCapacity(active_count) == active_count >= MaxConcurrentAgents

\* What spawn_agent and retire_agent did, as the run's agent_log records it.
Spawned(agent_id) == [op |-> "spawned", agent |-> agent_id, reason |-> ""]
Retired(agent_id, reason) == [op |-> "retired", agent |-> agent_id, reason |-> reason]

\* ------------------------------------------------------- the step schedule
\* The position the two nested for loops reach after position (g, i):
\* the rest of the group, then the next group, then the end of the loops.
NextPositionSkippingGroupRest(order, g, i) ==
  IF g < Len(order) THEN [pc |-> "dispatch", group |-> g + 1, idx |-> 1]
  ELSE IF i < Len(order[g]) THEN [pc |-> "dispatch", group |-> g, idx |-> i + 1]
  ELSE [pc |-> "complete", group |-> g, idx |-> i]

NextPosition(order, g, i) ==
  IF i < Len(order[g]) THEN [pc |-> "dispatch", group |-> g, idx |-> i + 1]
  ELSE IF g < Len(order) THEN [pc |-> "dispatch", group |-> g + 1, idx |-> 1]
  ELSE [pc |-> "complete", group |-> g, idx |-> i]

CurrentStepId == workflow.execution_order[group][idx]
CurrentStep == workflow.steps[CurrentStepId]

Running == pc \notin {"idle", "done"}

\* ----------------------------------------------------------- execute_step
Min(a, b) == IF a <= b THEN a ELSE b

\* The delay slept after the retry_count-th failed attempt (retry_count has
\* been incremented already when the delay is computed).
RetryDelay(retry_config, count) ==
  Min(retry_config.initial_delay_seconds * retry_config.backoff_multiplier ^ count,
      retry_config.max_delay_seconds)

\* The retry loop sleeping after every failed attempt, the last included
SleepsAfterEveryFailure(retry_config, count) == count <= retry_config.max_attempts

\* `if retry_count < step.retry_config.max_attempts` after the increment
SleepsAfter(retry_config, count) == count < retry_config.max_attempts

\* ------------------------------------------------------- execute_workflow
\* Lines 86-110: the locals are initialised, RUNNING is set and persisted
\* whatever the workflow's state was, workflow.started is published.
ExecuteWorkflowStart ==
  /\ pc \in {"idle", "done"}
  /\ runs < MaxRuns
  /\ runs' = runs + 1
  /\ workflow' = [workflow EXCEPT !.state = "running"]
  /\ store' = SnapshotOf(workflow')
  /\ events' = <<"workflow.started">>
  /\ steps_completed' = 0 /\ steps_failed' = 0
  /\ results' = Unbound
  /\ wf_result' = NoWorkflowResult
  /\ started' = {} /\ resolved' = {} /\ outcomes' = {}
  /\ recoveries' = << >>
  /\ cancelled_in_run' = FALSE
  /\ agent' = 0 /\ retry_count' = 0 /\ last_error' = None /\ task_result' = NoResult
  /\ group' = 1 /\ idx' = 1
  /\ pc' = IF Len(workflow.execution_order) = 0 THEN "complete" ELSE "dispatch"
  /\ delays' = << >>
  /\ agent_log' = << >>
  /\ UNCHANGED <<session_status, active_agents, control_events, ctl>>
  /\ UNCHANGED otherVars

\* The step loop leaves position (group, idx) behind and goes on.
GoOn ==
  LET nxt == NextPosition(workflow.execution_order, group, idx) IN
  /\ pc' = nxt.pc /\ group' = nxt.group /\ idx' = nxt.idx
  /\ resolved' = resolved \cup {<<group, idx>>}

\* Lines 113-125 and 251-264: spawn_agent for the step; on success the step
\* enters execute_step (workflow.step_started).  At the ceiling spawn_agent
\* raises and the handler of lines 143-150 runs.
DispatchStep ==
  /\ pc = "dispatch"
  /\ results' = IF idx = 1 THEN << >> ELSE results
  /\ IF AtCapacity(Cardinality(active_agents))
     THEN LET recovery == HandleFailure(CapacityText) IN
          /\ steps_failed' = steps_failed + 1
          /\ recoveries' = Append(recoveries,
               [pos |-> <<group, idx>>, error |-> CapacityText, action |-> recovery,
                handler |-> "except"])
          /\ events' = Append(events, "workflow.recovery_triggered")
          /\ IF Aborts(recovery)
             THEN pc' = "fail" /\ UNCHANGED <<group, idx, resolved>>
             ELSE GoOn
          /\ UNCHANGED <<agent, active_agents, retry_count, last_error, started,
                         delays, agent_log>>
     ELSE /\ agent' = NewAgentId(active_agents)
          /\ active_agents' = active_agents \cup {agent'}
          /\ agent_log' = Append(agent_log, Spawned(agent'))
          /\ delays' = << >>
          /\ started' = started \cup {<<group, idx>>}
          /\ events' = Append(events, "workflow.step_started")
          /\ retry_count' = 0
          /\ last_error' = None
          /\ pc' = "attempt"
          /\ UNCHANGED <<group, idx, resolved, steps_failed, recoveries>>
  /\ UNCHANGED <<workflow, store, session_status, task_result, steps_completed,
                 wf_result, outcomes, control_events, ctl, cancelled_in_run, runs>>
  /\ UNCHANGED otherVars

\* Lines 266-306: one iteration of execute_step's retry loop.  The attempt
\* either succeeds (step_completed is published, the result is returned) or
\* raises; a raise is counted and, if attempts remain, followed by the sleep.
\* (The try body is where the agent's execution belongs; as written, what can
\* raise in it is event_bus.publish of workflow.step_completed, in which case
\* that event is not published.)
StepAttempt ==
  /\ pc = "attempt"
  /\ retry_count < CurrentStep.retry_config.max_attempts
  /\ \/ /\ task_result' = [success |-> TRUE, errors |-> << >>]
        /\ events' = Append(events, "workflow.step_completed")
        /\ pc' = "result"
        /\ UNCHANGED <<retry_count, last_error, delays>>
     \/ \E e \in ErrorTexts :
        /\ last_error' = e
        /\ retry_count' = retry_count + 1
        /\ delays' = IF SleepsAfter(CurrentStep.retry_config, retry_count')
                      THEN Append(delays, RetryDelay(CurrentStep.retry_config, retry_count'))
                      ELSE delays
        /\ UNCHANGED <<task_result, events, pc>>
  /\ UNCHANGED <<agent_log, workflow, store, session_status, group, idx, agent, active_agents,
                 steps_completed, steps_failed, results, wf_result,
                 started, resolved, outcomes, recoveries, control_events, ctl,
                 cancelled_in_run, runs>>
  /\ UNCHANGED otherVars

\* Lines 308-329: the loop is left without a success; `raise last_error` is
\* caught by execute_step's own handler, which publishes step_failed and
\* returns a failed TaskResult carrying the error text.
StepExhausted ==
  /\ pc = "attempt"
  /\ retry_count >= CurrentStep.retry_config.max_attempts
  /\ task_result' = [success |-> FALSE,
                     errors |-> << IF last_error = None THEN RaiseNoneText ELSE last_error >>]
  /\ events' = Append(events, "workflow.step_failed")
  /\ pc' = "result"
  /\ UNCHANGED <<delays, agent_log, workflow, store, session_status, group, idx, agent,
                 active_agents, retry_count, last_error, steps_completed, steps_failed,
                 results, wf_result, started, resolved, outcomes, recoveries,
                 control_events, ctl, cancelled_in_run, runs>>
  /\ UNCHANGED otherVars


\* Lines 127-150: the TaskResult is examined.  A success is counted and the
\* agent retired.  A failure is counted and handed to handle_failure; when
\* that escalates, line 136 raises inside the inner try, so the handler of
\* lines 143-150 counts the step again and hands the raised text to
\* handle_failure a second time, and only if that escalates too does the
\* exception leave the loops.  Either way the raise skips retire_agent.
HandleResult ==
  /\ pc = "result"
  /\ outcomes' = outcomes \cup
       {[pos |-> <<group, idx>>, success |-> task_result.success,
         attempts |-> retry_count + (IF task_result.success THEN 1 ELSE 0)]}
  /\ IF task_result.success
     THEN /\ steps_completed' = steps_completed + 1
          /\ results' = Append(results, CurrentStepId)
          /\ active_agents' = RetireAgent(active_agents, agent)
          /\ agent_log' = Append(agent_log, Retired(agent, "completed"))
          /\ GoOn
          /\ UNCHANGED <<steps_failed, recoveries, events>>
     ELSE LET first == HandleFailure(task_result.errors[1])
              second == HandleFailure(EscalationText(CurrentStepId))
              rec1 == [pos |-> <<group, idx>>, error |-> task_result.errors[1],
                       action |-> first, handler |-> "result"]
              rec2 == [pos |-> <<group, idx>>, error |-> EscalationText(CurrentStepId),
                       action |-> second, handler |-> "except"]
          IN
          IF Aborts(first)
          THEN /\ steps_failed' = steps_failed + 2
               /\ recoveries' = recoveries \o <<rec1, rec2>>
               /\ events' = events \o <<"workflow.recovery_triggered",
                                        "workflow.recovery_triggered">>
               /\ IF Aborts(second)
                  THEN pc' = "fail" /\ UNCHANGED <<group, idx, resolved>>
                  ELSE GoOn
               /\ UNCHANGED <<steps_completed, results, active_agents, agent_log>>
          ELSE /\ steps_failed' = steps_failed + 1
               /\ recoveries' = Append(recoveries, rec1)
               /\ events' = Append(events, "workflow.recovery_triggered")
               /\ results' = Append(results, CurrentStepId)
               /\ active_agents' = RetireAgent(active_agents, agent)
               /\ agent_log' = Append(agent_log, Retired(agent, "completed"))
               /\ GoOn
               /\ UNCHANGED steps_completed
  /\ UNCHANGED <<workflow, store, session_status, agent, retry_count,
                 last_error, task_result, wf_result, started, control_events, ctl,
                 cancelled_in_run, runs, delays>>
  /\ UNCHANGED otherVars

\* Lines 152-201: the loops ended.  COMPLETED is set and persisted,
\* workflow.completed published and the session record updated; building the
\* WorkflowResult then reads `results`, which is unbound when execution_order
\* had no group: that raises inside the try and the handler of line 203 runs.
CompleteWorkflow ==
  /\ pc = "complete"
  /\ workflow' = [workflow EXCEPT !.state = "completed"]
  /\ store' = SnapshotOf(workflow')
  /\ events' = Append(events, "workflow.completed")
  /\ session_status' = "completed"
  /\ IF results = Unbound
     THEN pc' = "fail" /\ UNCHANGED wf_result
     ELSE /\ pc' = "done"
          /\ wf_result' = [returned |-> TRUE, success |-> TRUE,
                           steps_completed |-> steps_completed,
                           steps_failed |-> steps_failed]
  /\ UNCHANGED <<group, idx, agent, active_agents, retry_count,
                 last_error, task_result, steps_completed, steps_failed, results,
                 started, resolved, outcomes, recoveries, control_events, ctl,
                 cancelled_in_run, runs, delays, agent_log>>
  /\ UNCHANGED otherVars

\* Lines 203-238: FAILED is set and persisted, workflow.failed published, the
\* session record updated and a WorkflowResult with success=False returned.
FailWorkflow ==
  /\ pc = "fail"
  /\ workflow' = [workflow EXCEPT !.state = "failed"]
  /\ store' = SnapshotOf(workflow')
  /\ events' = Append(events, "workflow.failed")
  /\ session_status' = "failed"
  /\ pc' = "done"
  /\ wf_result' = [returned |-> TRUE, success |-> FALSE,
                   steps_completed |-> steps_completed,
                   steps_failed |-> steps_failed]
  /\ UNCHANGED <<group, idx, agent, active_agents, retry_count,
                 last_error, task_result, steps_completed, steps_failed, results,
                 started, resolved, outcomes, recoveries, control_events, ctl,
                 cancelled_in_run, runs, delays, agent_log>>
  /\ UNCHANGED otherVars

\* ------------------------------------------- calls made by other callers
runVars == <<workflow, pc, group, idx, agent, active_agents, retry_count,
             last_error, task_result, steps_completed, steps_failed, results,
             wf_result, started, resolved, outcomes, recoveries, events, runs,
             delays, agent_log>>

\* Orchestrator.pause_workflow
PauseWorkflow ==
  /\ ctl.n < MaxControlCalls
  /\ IF CanPause(store)
     THEN /\ store' = SnapshotOf([RestoreState(store) EXCEPT !.state = "paused"])
          /\ control_events' = [control_events EXCEPT !.paused = @ + 1]
          /\ ctl' = [n |-> ctl.n + 1, op |-> "pause", ret |-> TRUE]
     ELSE /\ ctl' = [n |-> ctl.n + 1, op |-> "pause", ret |-> FALSE]
          /\ UNCHANGED <<store, control_events>>
  /\ UNCHANGED <<runVars, session_status, cancelled_in_run>>
  /\ UNCHANGED otherVars

\* Orchestrator.resume_workflow
ResumeWorkflow ==
  /\ ctl.n < MaxControlCalls
  /\ IF CanResume(store)
     THEN /\ store' = SnapshotOf([RestoreState(store) EXCEPT !.state = "running"])
          /\ control_events' = [control_events EXCEPT !.resumed = @ + 1]
          /\ ctl' = [n |-> ctl.n + 1, op |-> "resume", ret |-> TRUE]
     ELSE /\ ctl' = [n |-> ctl.n + 1, op |-> "resume", ret |-> FALSE]
          /\ UNCHANGED <<store, control_events>>
  /\ UNCHANGED <<runVars, session_status, cancelled_in_run>>
  /\ UNCHANGED otherVars

\* cancel_workflow of the API: the session record is marked cancelled and
\* workflow.cancelled published; neither the Workflow object nor its snapshot
\* is touched.
CancelWorkflow ==
  /\ ctl.n < MaxControlCalls
  /\ session_status' = "cancelled"
  /\ control_events' = [control_events EXCEPT !.cancelled = @ + 1]
  /\ ctl' = [n |-> ctl.n + 1, op |-> "cancel", ret |-> TRUE]
  /\ cancelled_in_run' = (cancelled_in_run \/ Running)
  /\ UNCHANGED <<runVars, store>>
  /\ UNCHANGED otherVars

\* Orchestrator.persist_state called on the Workflow object by its holder,
\* outside a run.
PersistState ==
  /\ ctl.n < MaxControlCalls
  /\ ~Running
  /\ store' = SnapshotOf(workflow)
  /\ ctl' = [n |-> ctl.n + 1, op |-> "persist", ret |-> TRUE]
  /\ UNCHANGED <<runVars, session_status, control_events, cancelled_in_run>>
  /\ UNCHANGED otherVars

Next ==
  \/ ExecuteWorkflowStart
  \/ DispatchStep
  \/ StepAttempt
  \/ StepExhausted
  \/ HandleResult
  \/ CompleteWorkflow
  \/ FailWorkflow
  \/ PauseWorkflow
  \/ ResumeWorkflow
  \/ CancelWorkflow
  \/ PersistState

Spec == Init /\ [][Next]_vars

\* --------------------------------------------- handle_failure on its own
\* Orchestrator.handle_failure(step, error): the error is classified,
\* workflow.recovery_triggered is published with the failure type, and the
\* RecoveryAction for that type is returned.
HandleFailureCall ==
  /\ handled' = [text |-> error_text,
                 failure_type |-> ClassifyFailure(error_text),
                 event |-> <<"workflow.recovery_triggered", ClassifyFailure(error_text)>>,
                 action |-> HandleFailure(error_text)]
  /\ UNCHANGED <<orchestratorVars, managerVars, toolVars, fabricVars, verifyVars,
                 laterVars, error_text>>

\* The caller holds an error whose text is any of Texts.
InitFailure ==
  /\ InitOrchestrator
  /\ InitManager
  /\ InitTool
  /\ InitFabricWith({})
  /\ InitVerifyWith(<< >>)
  /\ InitLater
  /\ error_text \in Texts
  /\ handled = NotHandled

NextFailure == HandleFailureCall

SpecFailure == InitFailure /\ [][NextFailure]_vars

\* ------------------------------------- AgentManager called from threads
\* The manager takes no lock: a thread can be preempted between any two
\* statements, so each call is cut where it reads or writes the shared
\* active_agents dictionary.

\* self.active_agents[agent_id] = agent, and agent.status = ...
PutAgent(active, agent_id, status) ==
  [a \in (DOMAIN active) \cup {agent_id} |-> IF a = agent_id THEN status ELSE active[a]]

\* del self.active_agents[agent_id]
DropAgent(active, agent_id) == [a \in (DOMAIN active) \ {agent_id} |-> active[a]]

\* Ids a caller passes to retire_agent / replace_agent: the id of any agent
\* spawned so far, active or not any more, or one that was never given out (0).
TargetIds == 0..(next_id - 1)

\* The lookup made among all Agent objects created so far instead of the
\* active ones: an agent retired before is found again
FoundAmongCreated(active, agent_id) == agent_id \in DOMAIN agents

\* `agent = self.active_agents.get(agent_id)` ... `if not agent`
Found(active, agent_id) == agent_id \in DOMAIN active

\* _get_allowed_tools with PRIVILEGED given the tools of RESTRICTED
AllowedToolsPrivilegedReadOnly(trust_level) ==
  CASE trust_level = "standard" ->
         <<"read_file", "list_directory", "write_file", "http_request">>
    [] trust_level = "elevated" ->
         <<"read_file", "list_directory", "write_file", "http_request", "execute_command">>
    [] OTHER -> <<"read_file", "list_directory">>

\* AgentManager._get_allowed_tools: the list of tool names of a trust level
AllowedTools(trust_level) ==
  CASE trust_level = "restricted" -> <<"read_file", "list_directory">>
    [] trust_level = "standard" ->
         <<"read_file", "list_directory", "write_file", "http_request">>
    [] trust_level = "elevated" ->
         <<"read_file", "list_directory", "write_file", "http_request", "execute_command">>
    [] trust_level = "privileged" -> <<"all">>
    [] OTHER -> << >>

\* Agent(...) as spawn_agent builds it
Agent(args) ==
  [goal |-> args.goal, capabilities |-> args.capabilities,
   allowed_tools |-> AllowedTools(args.trust_level), trust_level |-> args.trust_level,
   failure_history |-> << >>, status |-> "initializing"]

\* The arguments callers give to spawn_agent: one request per trust level.
SpawnArgs ==
  { [capabilities |-> <<"read">>, trust_level |-> "restricted", goal |-> "audit"],
    [capabilities |-> <<"read", "write">>, trust_level |-> "standard", goal |-> "report"],
    [capabilities |-> <<"read", "run">>, trust_level |-> "elevated", goal |-> "deploy"],
    [capabilities |-> <<"admin">>, trust_level |-> "privileged", goal |-> "repair"] }

\* The reason callers give to replace_agent.
ReplaceReason == "unresponsive"

\* FailureRecord(...) as replace_agent builds it (without its uuid and time)
FailureRecord(agent_id, reason) ==
  [failure_type |-> "agent_failure", error_message |-> reason, context |-> agent_id,
   recovery_action |-> "agent_replacement", recovery_success |-> TRUE]

\* agent.status = ... on an Agent object
SetStatus(objects, agent_id, status) == [objects EXCEPT ![agent_id].status = status]

Return(t, value) == [th EXCEPT ![t] = [@ EXCEPT !.pc = "idle", !.ret = value]]

Goto(t, label) == [th EXCEPT ![t] = [@ EXCEPT !.pc = label]]

\* A thread calls spawn_agent(capabilities, trust_level, goal).
CallSpawn(t) ==
  /\ th[t].pc = "idle" /\ calls < MaxManagerCalls
  /\ calls' = calls + 1
  /\ \E args \in SpawnArgs :
       th' = [th EXCEPT ![t] = [Idle EXCEPT !.pc = "spawn_check", !.op = "spawn",
                                           !.args = args]]
  /\ UNCHANGED <<pool, agents, agent_memory, bus, next_id>>
  /\ UNCHANGED notManagerVars

\* A thread calls retire_agent(agent_id) (reason defaults to "completed").
CallRetire(t) ==
  /\ th[t].pc = "idle" /\ calls < MaxManagerCalls
  /\ calls' = calls + 1
  /\ \E id \in TargetIds :
       th' = [th EXCEPT ![t] = [Idle EXCEPT !.pc = "retire_lookup", !.op = "retire",
                                           !.target = id, !.reason = "completed"]]
  /\ UNCHANGED <<pool, agents, agent_memory, bus, next_id>>
  /\ UNCHANGED notManagerVars

\* A thread calls replace_agent(agent_id, reason).
CallReplace(t) ==
  /\ th[t].pc = "idle" /\ calls < MaxManagerCalls
  /\ calls' = calls + 1
  /\ \E id \in TargetIds :
       th' = [th EXCEPT ![t] =
                [Idle EXCEPT !.pc = "replace_lookup", !.op = "replace", !.target = id,
                             !.solo = IF \A u \in Threads \ {t} : th[u].pc = "idle"
                                      THEN calls + 1 ELSE 0,
                             !.active = Cardinality(DOMAIN pool)]]
  /\ UNCHANGED <<pool, agents, agent_memory, bus, next_id>>
  /\ UNCHANGED notManagerVars

\* spawn_agent, lines 84-88: the capacity test; at the ceiling the call raises.
SpawnCheck(t) ==
  /\ th[t].pc = "spawn_check"
  /\ th' = IF AtCapacity(Cardinality(DOMAIN pool))
            THEN Return(t, "capacity_error")
            ELSE Goto(t, "spawn_insert")
  /\ UNCHANGED <<pool, agents, agent_memory, bus, next_id, calls>>
  /\ UNCHANGED notManagerVars

\* spawn_agent, lines 90-110: the Agent is built with a fresh id and status
\* INITIALIZING and put into active_agents.
SpawnInsert(t) ==
  /\ th[t].pc = "spawn_insert"
  /\ agents' = [a \in (DOMAIN agents) \cup {next_id} |->
                  IF a = next_id THEN Agent(th[t].args) ELSE agents[a]]
  /\ pool' = PutAgent(pool, next_id, "initializing")
  /\ next_id' = next_id + 1
  /\ th' = [th EXCEPT ![t] = [@ EXCEPT !.pc = "spawn_init", !.new = next_id]]
  /\ UNCHANGED <<agent_memory, bus, calls>>
  /\ UNCHANGED notManagerVars

\* spawn_agent, lines 112-147: the agent's memory is stored, the Agent object
\* set READY (it may have been taken out of active_agents meanwhile),
\* agent.spawned published and the agent returned; inside replace_agent the
\* call goes on at line 228.  store_agent_memory and event_bus.publish raise
\* the RedisError of a failed Redis command, and nothing catches it: the
\* call ends there, with what it did so far left as it is.
SpawnInit(t) ==
  /\ th[t].pc = "spawn_init"
  /\ \/ /\ agent_memory' = agent_memory \cup {th[t].new}
        /\ agents' = SetStatus(agents, th[t].new, "ready")
        /\ pool' = IF th[t].new \in DOMAIN pool THEN PutAgent(pool, th[t].new, "ready")
                   ELSE pool
        /\ bus' = [bus EXCEPT !.spawned = @ \cup {th[t].new}]
        /\ th' = IF th[t].op = "replace" THEN Goto(t, "replace_finish")
                 ELSE Return(t, "agent")
     \/ /\ bus.errors < MaxRedisErrors
        /\ bus' = [bus EXCEPT !.errors = @ + 1]
        /\ th' = Return(t, "memory_error")
        /\ UNCHANGED <<agent_memory, agents, pool>>
     \/ /\ bus.errors < MaxRedisErrors
        /\ bus' = [bus EXCEPT !.errors = @ + 1]
        /\ agent_memory' = agent_memory \cup {th[t].new}
        /\ agents' = SetStatus(agents, th[t].new, "ready")
        /\ pool' = IF th[t].new \in DOMAIN pool THEN PutAgent(pool, th[t].new, "ready")
                   ELSE pool
        /\ th' = Return(t, "bus_error")
  /\ UNCHANGED <<next_id, calls>>
  /\ UNCHANGED notManagerVars

\* retire_agent, lines 157-164: an id that is not active is a logged no-op;
\* otherwise the agent is marked RETIRED.  Inside replace_agent the call goes
\* on with spawn_agent (line 222) when retire_agent returns.
RetireLookup(t) ==
  /\ th[t].pc = "retire_lookup"
  /\ IF ~Found(pool, th[t].target)
     THEN /\ th' = IF th[t].op = "replace" THEN Goto(t, "spawn_check") ELSE Return(t, "none")
          /\ UNCHANGED <<pool, agents>>
     ELSE /\ agents' = SetStatus(agents, th[t].target, "retired")
          /\ pool' = PutAgent(pool, th[t].target, "retired")
          /\ th' = Goto(t, "retire_remove")
  /\ UNCHANGED <<agent_memory, bus, next_id, calls>>
  /\ UNCHANGED notManagerVars

\* retire_agent, lines 166-187: the agent's memory is cleared, the agent
\* deleted from active_agents (KeyError if another thread deleted it first)
\* and agent.retired published with the reason.  get_agent_memory,
\* clear_agent_memory and event_bus.publish raise the RedisError of a failed
\* Redis command; it ends retire_agent, and the replace_agent that called it.
RetireRemove(t) ==
  /\ th[t].pc = "retire_remove"
  /\ \/ /\ agent_memory' = agent_memory \ {th[t].target}
        /\ IF th[t].target \in DOMAIN pool
           THEN /\ pool' = DropAgent(pool, th[t].target)
                /\ bus' = [bus EXCEPT !.retired =
                             @ \cup {[agent |-> th[t].target, reason |-> th[t].reason]}]
                /\ th' = IF th[t].op = "replace" THEN Goto(t, "spawn_check")
                         ELSE Return(t, "none")
           ELSE /\ th' = Return(t, "key_error")
                /\ UNCHANGED <<pool, bus>>
     \/ /\ bus.errors < MaxRedisErrors
        /\ bus' = [bus EXCEPT !.errors = @ + 1]
        /\ th' = Return(t, "memory_error")
        /\ UNCHANGED <<agent_memory, pool>>
     \/ /\ bus.errors < MaxRedisErrors
        /\ th[t].target \in DOMAIN pool
        /\ bus' = [bus EXCEPT !.errors = @ + 1]
        /\ agent_memory' = agent_memory \ {th[t].target}
        /\ pool' = DropAgent(pool, th[t].target)
        /\ th' = Return(t, "bus_error")
  /\ UNCHANGED <<agents, next_id, calls>>
  /\ UNCHANGED notManagerVars

\* replace_agent, lines 200-219: ValueError for an id that is not active;
\* otherwise the FailureRecord is built and retire_agent called with reason
\* "replaced".  The arguments of the spawn_agent call of line 222 are read
\* from the old Agent object, whose capabilities, trust level and goal are
\* never reassigned.
ReplaceLookup(t) ==
  /\ th[t].pc = "replace_lookup"
  /\ th' = IF ~Found(pool, th[t].target)
            THEN Return(t, "value_error")
            ELSE [th EXCEPT ![t] =
                    [@ EXCEPT !.pc = "retire_lookup", !.reason = "replaced",
                              !.args = [capabilities |-> agents[th[t].target].capabilities,
                                        trust_level |-> agents[th[t].target].trust_level,
                                        goal |-> agents[th[t].target].goal]]]
  /\ UNCHANGED <<pool, agents, agent_memory, bus, next_id, calls>>
  /\ UNCHANGED notManagerVars

\* replace_agent, lines 228-250: the failure history is copied to the new
\* Agent object, agent.replaced published (or the RedisError of the publish
\* raised) and the new agent returned.
ReplaceFinish(t) ==
  /\ th[t].pc = "replace_finish"
  /\ agents' = [agents EXCEPT ![th[t].new].failure_history =
                  Append(agents[th[t].target].failure_history,
                         FailureRecord(th[t].target, ReplaceReason))]
  /\ \/ /\ bus' = [bus EXCEPT !.replaced = @ \cup {[old |-> th[t].target, new |-> th[t].new]}]
        /\ th' = Return(t, "agent")
     \/ /\ bus.errors < MaxRedisErrors
        /\ bus' = [bus EXCEPT !.errors = @ + 1]
        /\ th' = Return(t, "bus_error")
  /\ UNCHANGED <<pool, agent_memory, next_id, calls>>
  /\ UNCHANGED notManagerVars

NextManager ==
  \E t \in Threads :
    \/ CallSpawn(t)
    \/ CallRetire(t)
    \/ CallReplace(t)
    \/ SpawnCheck(t)
    \/ SpawnInsert(t)
    \/ SpawnInit(t)
    \/ RetireLookup(t)
    \/ RetireRemove(t)
    \/ ReplaceLookup(t)
    \/ ReplaceFinish(t)

SpecManager == InitOther /\ [][NextManager]_vars

\* ------------------------------------------------------- ToolExecutor
\* `minute_ago = now - 60`
RateWindowSeconds == 60

\* Tool(...): the fields execute_tool reads.  `required` and `type` are the
\* "required" list and the declared type of the one parameter ("path") of
\* parameters_schema.
Tool(tool_name, required_trust_level, rate_limit, required) ==
  [tool_name |-> tool_name, required_trust_level |-> required_trust_level,
   rate_limit |-> rate_limit, required |-> required, type |-> "string"]

\* The tools callers hand to execute_tool: read_file, two calls a minute, its
\* path required, and execute_command, one call a minute, nothing required;
\* each with any required trust level.
Tools ==
  { Tool("read_file", l, 2, <<"path">>) : l \in {TrustLevels[i] : i \in 1..Len(TrustLevels)} }
  \cup
  { Tool("execute_command", l, 1, << >>) : l \in {TrustLevels[i] : i \in 1..Len(TrustLevels)} }

\* The parameters callers hand to execute_tool: none, a path that is a str,
\* a path that is an int.
Params == { << >>, [path |-> "str"], [path |-> "int"] }

\* The agents callers hand to execute_tool: agents built by spawn_agent.
ToolAgents == { Agent(args) : args \in SpawnArgs }

\* validate_params(tool, params)["valid"]
ValidateParams(tool, params) ==
  /\ \A i \in 1..Len(tool.required) : tool.required[i] \in DOMAIN params
  /\ "path" \in DOMAIN params =>
       params.path = (IF tool.type = "string" THEN "str" ELSE tool.type)

\* check_authorization with the test of the allowed-tool list left out
CheckAuthorizationByLevelOnly(tool, tool_agent) ==
  ~(TrustRank(tool_agent.trust_level) < TrustRank(tool.required_trust_level))

\* ToolExecutor.check_authorization
CheckAuthorization(tool, tool_agent) ==
  IF TrustRank(tool_agent.trust_level) < TrustRank(tool.required_trust_level) THEN FALSE
  ELSE IF ~ToolAllowed(tool_agent.allowed_tools, tool.tool_name) THEN FALSE
  ELSE TRUE

\* _check_rate_limit: the timestamps of the tool that are still in the window
Recent(limits, tool_name, now) ==
  IF tool_name \in DOMAIN limits
  THEN SelectSeq(limits[tool_name], LAMBDA ts : ts > now - RateWindowSeconds)
  ELSE << >>

\* self.rate_limits[tool_name] = ...
SetLimits(limits, tool_name, stamps) ==
  [n \in (DOMAIN limits) \cup {tool_name} |-> IF n = tool_name THEN stamps ELSE limits[n]]

\* ToolResult(...) together with the arguments of the call
ToolResult(tool, tool_agent, success, error) ==
  [tool |-> tool.tool_name, required_trust_level |-> tool.required_trust_level,
   agent |-> [capabilities |-> tool_agent.capabilities,
              trust_level |-> tool_agent.trust_level, goal |-> tool_agent.goal],
   success |-> success, error |-> error, called |-> TRUE]

\* execute_tool(tool, params, agent): authorization, parameters and rate
\* limit are tested in this order; each failure and every error of the
\* container is caught and returned as a failed ToolResult.
ExecuteTool ==
  /\ tool_calls < MaxToolCalls
  /\ tool_calls' = tool_calls + 1
  /\ \E tool \in Tools, params \in Params, tool_agent \in ToolAgents :
       IF ~CheckAuthorization(tool, tool_agent)
       THEN /\ tool_result' = ToolResult(tool, tool_agent, FALSE, "not authorized")
            /\ UNCHANGED <<rate_limits, containers>>
       ELSE IF ~ValidateParams(tool, params)
       THEN /\ tool_result' = ToolResult(tool, tool_agent, FALSE, "Invalid parameters")
            /\ UNCHANGED <<rate_limits, containers>>
       ELSE IF Len(Recent(rate_limits, tool.tool_name, clock)) >= tool.rate_limit
       THEN /\ tool_result' = ToolResult(tool, tool_agent, FALSE, "Rate limit exceeded")
            /\ rate_limits' = SetLimits(rate_limits, tool.tool_name,
                                        Recent(rate_limits, tool.tool_name, clock))
            /\ UNCHANGED containers
       ELSE /\ rate_limits' = SetLimits(rate_limits, tool.tool_name,
                                        Append(Recent(rate_limits, tool.tool_name, clock), clock))
            /\ containers' = Append(containers, tool.tool_name)
            /\ \/ tool_result' = ToolResult(tool, tool_agent, TRUE, "")
               \/ tool_result' = ToolResult(tool, tool_agent, FALSE, "container failed")
  /\ UNCHANGED clock
  /\ UNCHANGED notToolVars

\* Half a rate-limit window passes.
Tick ==
  /\ clock < MaxTicks * (RateWindowSeconds \div 2)
  /\ clock' = clock + RateWindowSeconds \div 2
  /\ UNCHANGED <<rate_limits, containers, tool_result, tool_calls>>
  /\ UNCHANGED notToolVars

NextTool == ExecuteTool \/ Tick

SpecTool == InitOther /\ [][NextTool]_vars

\* ------------------------------------------------- IntelligenceFabric
\* f"{provider.provider_name}:{provider.model_name}"
Key(provider) == <<provider.provider_name, provider.model_name>>

\* self.providers[key] = provider: a new key goes to the end of the dict, a
\* key that is there keeps its place and gets the new object.
RegisterProviderIn(reg, provider) ==
  IF \E i \in 1..Len(reg) : Key(reg[i]) = Key(provider)
  THEN [i \in 1..Len(reg) |-> IF Key(reg[i]) = Key(provider) THEN provider ELSE reg[i]]
  ELSE Append(reg, provider)

\* The provider registered under a key
ProviderAt(reg, key) == reg[CHOOSE i \in 1..Len(reg) : Key(reg[i]) = key]

\* LLMRole (core/models.py), and a role value that is none of them
Roles == {"planner", "executor", "verifier", "auditor", "synthesizer", "critic"}

\* get_providers_by_role: role_preferences.get(role, [])
RolePreferences(role) ==
  CASE role = "planner" -> {"gpt-4", "claude-3-opus"}
    [] role = "executor" -> {"gpt-3.5-turbo", "claude-3-haiku"}
    [] role = "verifier" -> {"claude-3-opus", "gpt-4"}
    [] role = "auditor" -> {"gpt-4", "claude-3-sonnet"}
    [] role = "synthesizer" -> {"claude-3-opus", "gpt-4"}
    [] OTHER -> {}

\* The preferred model names that occur inside a model name
\* (`model in provider.model_name`, a substring test)
PreferredIn(model_name) ==
  CASE model_name = "gpt-4" -> {"gpt-4"}
    [] model_name = "gpt-4-turbo" -> {"gpt-4"}
    [] model_name = "gpt-3.5-turbo" -> {"gpt-3.5-turbo"}
    [] model_name = "claude-3-opus-20240229" -> {"claude-3-opus"}
    [] model_name = "claude-3-haiku-20240307" -> {"claude-3-haiku"}
    [] model_name = "claude-3-sonnet-20240229" -> {"claude-3-sonnet"}
    [] OTHER -> {}

\* `any(model in provider.model_name for model in preferred_models)`
Suitable(provider, role) == RolePreferences(role) \cap PreferredIn(provider.model_name) # {}

\* The sort key with the cost in front of the reliability
SortsBeforeCostFirst(a, b) ==
  \/ a.cost_per_token < b.cost_per_token
  \/ /\ a.cost_per_token = b.cost_per_token
     /\ \/ a.reliability_score > b.reliability_score
        \/ a.reliability_score = b.reliability_score /\ a.avg_latency < b.avg_latency

\* key(a) < key(b) for key = (-reliability_score, cost_per_token, avg_latency)
SortsBefore(a, b) ==
  \/ a.reliability_score > b.reliability_score
  \/ /\ a.reliability_score = b.reliability_score
     /\ \/ a.cost_per_token < b.cost_per_token
        \/ a.cost_per_token = b.cost_per_token /\ a.avg_latency < b.avg_latency

\* list.sort(key=...): a stable sort; the place of element i of the list
PlaceInSort(list, i) ==
  1 + Cardinality({ j \in 1..Len(list) :
                      \/ SortsBefore(list[j], list[i])
                      \/ ~SortsBefore(list[i], list[j]) /\ j < i })

Sorted(list) ==
  [k \in 1..Len(list) |-> list[CHOOSE i \in 1..Len(list) : PlaceInSort(list, i) = k]]

\* ModelCapabilityRegistry.get_providers_by_role
GetProvidersByRole(reg, role) ==
  Sorted(SelectSeq(reg, LAMBDA provider : Suitable(provider, role)))

\* The keys of a list of providers
Keys(list) == [k \in 1..Len(list) |-> Key(list[k])]

\* The latency of an LLMResponse: one second
ResponseLatency == 10 ^ MaxFabricCalls

\* update_performance's steps: +0.01 on a success, -0.05 on a failure
SuccessGain == 1
FailureLoss == 5

Max(a, b) == IF a > b THEN a ELSE b

\* ModelCapabilityRegistry.update_performance on the provider of a key
UpdatePerformance(reg, key, latency, success) ==
  [i \in 1..Len(reg) |->
     IF Key(reg[i]) # key THEN reg[i]
     ELSE [reg[i] EXCEPT
             !.avg_latency = (reg[i].avg_latency * 9 + latency * 1) \div 10,
             !.reliability_score =
                IF success THEN Min(FullReliability, reg[i].reliability_score + SuccessGain)
                ELSE Max(0, reg[i].reliability_score - FailureLoss)]]

\* LLMProviderFactory.create: provider_map
SupportedProviders == {"openai", "anthropic", "google"}

\* call_llm, lines 251-256: why no provider instance can be had ("" if
\* there is one already or one can be created)
InstanceError(key) ==
  IF key \in provider_instances THEN ""
  ELSE IF key[1] \notin api_keys THEN "no_api_key"
  ELSE IF key[1] \notin SupportedProviders THEN "unsupported_provider"
  ELSE ""

\* call_llm(provider, ...) where provider_instance.call succeeds (ok) or
\* raises: the registry and the instances afterwards, and what is raised.
CallLlm(key, ok) ==
  IF InstanceError(key) # ""
  THEN [providers |-> providers, provider_instances |-> provider_instances,
        error |-> InstanceError(key)]
  ELSE [providers |-> UpdatePerformance(providers, key, IF ok THEN ResponseLatency ELSE 0, ok),
        provider_instances |-> provider_instances \cup {key},
        error |-> IF ok THEN "" ELSE "call_failed"]

\* One call_llm as it is seen from outside: the provider, its reliability
\* before and after, what was raised.
Tried(key, call) ==
  [key |-> key, before |-> ProviderAt(providers, key).reliability_score,
   after |-> ProviderAt(call.providers, key).reliability_score, error |-> call.error]

\* Providers a caller registers besides the defaults: a second gpt-4 model
\* of openai with a low reliability score, and a gpt-4 of a provider the
\* factory has no class for.
ExtraProviders ==
  { LLMProvider("openai", "gpt-4-turbo", 120, 3),
    LLMProvider("azure", "gpt-4", 120, FullReliability) }

\* registry.register_provider(provider)
RegisterProvider ==
  /\ fab.pc = "idle" /\ fabric_calls < MaxFabricCalls
  /\ fabric_calls' = fabric_calls + 1
  /\ \E provider \in ExtraProviders :
       /\ providers' = RegisterProviderIn(providers, provider)
       /\ fab' = [NoFabricCall EXCEPT !.op = "register"]
  /\ UNCHANGED <<api_keys, provider_instances>>
  /\ UNCHANGED notFabricVars

\* route_task(task, role)
RouteTask ==
  /\ fab.pc = "idle" /\ fabric_calls < MaxFabricCalls
  /\ fabric_calls' = fabric_calls + 1
  /\ \E role \in Roles :
       LET ranked == GetProvidersByRole(providers, role)
       IN fab' = [NoFabricCall EXCEPT
                    !.op = "route", !.role = role, !.ranked = Keys(ranked),
                    !.result = IF ranked = << >> THEN None ELSE Key(ranked[1]),
                    !.error = IF ranked = << >> THEN "no_providers" ELSE ""]
  /\ UNCHANGED <<providers, api_keys, provider_instances>>
  /\ UNCHANGED notFabricVars

\* call_llm(provider, prompt, config, role) on a registered provider
CallLlmCall ==
  /\ fab.pc = "idle" /\ fabric_calls < MaxFabricCalls
  /\ fabric_calls' = fabric_calls + 1
  /\ \E i \in 1..Len(providers), ok \in BOOLEAN :
       LET key == Key(providers[i])
           call == CallLlm(key, ok)
       IN /\ providers' = call.providers
          /\ provider_instances' = call.provider_instances
          /\ fab' = [NoFabricCall EXCEPT
                       !.op = "call", !.tried = <<Tried(key, call)>>,
                       !.result = IF call.error = "" THEN key ELSE None,
                       !.error = call.error]
  /\ UNCHANGED api_keys
  /\ UNCHANGED notFabricVars

\* execute_with_fallback keeping the first error instead of the last
KeepFirstError(previous, error) == IF previous = "" THEN error ELSE previous

\* execute_with_fallback, line 433: `last_error = e`
KeepLastError(previous, error) == error

\* execute_with_fallback(task, role, config), line 420: the providers of the
\* role are ranked once, before the first call.
FallbackStart ==
  /\ fab.pc = "idle" /\ fabric_calls < MaxFabricCalls
  /\ fabric_calls' = fabric_calls + 1
  /\ \E role \in Roles :
       fab' = [NoFabricCall EXCEPT
                 !.op = "fallback", !.role = role, !.pc = "loop",
                 !.ranked = Keys(GetProvidersByRole(providers, role)), !.i = 1]
  /\ UNCHANGED <<providers, api_keys, provider_instances>>
  /\ UNCHANGED notFabricVars

\* execute_with_fallback, lines 423-439: the next provider of the ranking is
\* called; its response is returned, or its error kept as last_error; after
\* the last provider the combined error is raised.
FallbackStep ==
  /\ fab.pc = "loop"
  /\ IF fab.i > Len(fab.ranked)
     THEN /\ fab' = [fab EXCEPT !.pc = "idle", !.error = "all_failed"]
          /\ UNCHANGED <<providers, provider_instances>>
     ELSE \E ok \in BOOLEAN :
            LET key == fab.ranked[fab.i]
                call == CallLlm(key, ok)
            IN /\ providers' = call.providers
               /\ provider_instances' = call.provider_instances
               /\ fab' = IF call.error = ""
                         THEN [fab EXCEPT !.pc = "idle", !.result = key,
                                          !.tried = Append(@, Tried(key, call))]
                         ELSE [fab EXCEPT !.i = @ + 1,
                                          !.last_error = KeepLastError(@, call.error),
                                          !.tried = Append(@, Tried(key, call))]
  /\ UNCHANGED <<api_keys, fabric_calls>>
  /\ UNCHANGED notFabricVars

NextFabric ==
  \/ RegisterProvider
  \/ RouteTask
  \/ CallLlmCall
  \/ FallbackStart
  \/ FallbackStep

\* A fabric constructed with any API keys.
InitFabricCalls ==
  /\ InitOrchestrator /\ workflow = Workflow(4)
  /\ InitManager
  /\ InitTool
  /\ InitFabric
  /\ InitVerifyWith(<< >>)
  /\ InitLater
  /\ error_text = None
  /\ handled = NotHandled

SpecFabric == InitFabricCalls /\ [][NextFabric]_vars

\* ----------------------------------------------------------- cross_verify
\* Response texts are sequences of the characters "a" and "b"; a confidence
\* is counted in hundredths; a similarity is the pair <<2 * M, T>> of
\* SequenceMatcher.ratio() = 2.0 * M / T.

\* The texts and confidences of the responses handed to cross_verify.
ResponseTexts == UNION { [1..n -> {"a", "b"}] : n \in 0..MaxResponseLen }
Confidences == {50, 90}

\* LLMResponse(...): the fields cross_verify reads
LLMResponse(text, confidence) == [response |-> text, confidence |-> confidence]

ResponseLists ==
  UNION { [1..n -> { LLMResponse(t, c) : t \in ResponseTexts, c \in Confidences }] :
          n \in 0..MaxResponses }

\* difflib: the blocks <<i, j, k>> with a[i .. i+k-1] = b[j .. j+k-1], k > 0
\* (no element is junk, and autojunk needs 200 characters)
Blocks(a, b) ==
  { m \in (1..Len(a)) \X (1..Len(b)) \X (1..Len(a)) :
      /\ m[1] + m[3] - 1 <= Len(a) /\ m[2] + m[3] - 1 <= Len(b)
      /\ SubSeq(a, m[1], m[1] + m[3] - 1) = SubSeq(b, m[2], m[2] + m[3] - 1) }

\* SequenceMatcher.find_longest_match: the longest block; of those the one
\* that starts earliest in a; of those the one that starts earliest in b
LongestMatch(a, b) ==
  CHOOSE m \in Blocks(a, b) :
    \A n \in Blocks(a, b) :
      \/ n[3] < m[3]
      \/ n[3] = m[3] /\ m[1] < n[1]
      \/ n[3] = m[3] /\ m[1] = n[1] /\ m[2] <= n[2]

\* SequenceMatcher.get_matching_blocks: the longest match, then the same to
\* its left and to its right; M is the summed size of the blocks
RECURSIVE MatchedSize(_, _)
MatchedSize(a, b) ==
  IF Blocks(a, b) = {} THEN 0
  ELSE LET m == LongestMatch(a, b)
       IN m[3] + MatchedSize(SubSeq(a, 1, m[1] - 1), SubSeq(b, 1, m[2] - 1))
               + MatchedSize(SubSeq(a, m[1] + m[3], Len(a)), SubSeq(b, m[2] + m[3], Len(b)))

\* SequenceMatcher(None, a, b).ratio(): 2.0 * M / T, and 1.0 when T = 0
Ratio(a, b) ==
  IF Len(a) + Len(b) = 0 THEN <<1, 1>> ELSE <<2 * MatchedSize(a, b), Len(a) + Len(b)>>

\* The pairs (i, j), i < j, in the order of the two for loops
PairSeq(n) ==
  LET pairs == { q \in (1..n) \X (1..n) : q[1] < q[2] }
  IN [k \in 1..Cardinality(pairs) |->
        CHOOSE q \in pairs :
          Cardinality({ r \in pairs : r[1] < q[1] \/ (r[1] = q[1] /\ r[2] <= q[2]) }) = k]

\* cross_verify, lines 307-313: `similarities`
Similarities(list) ==
  [k \in DOMAIN PairSeq(Len(list)) |->
     Ratio(list[PairSeq(Len(list))[k][1]].response, list[PairSeq(Len(list))[k][2]].response)]

\* sum(similarities) as an exact fraction <<numerator, denominator>>
RECURSIVE SumOf(_, _)
SumOf(similarities, k) ==
  IF k = 0 THEN <<0, 1>>
  ELSE LET rest == SumOf(similarities, k - 1)
       IN <<rest[1] * similarities[k][2] + similarities[k][1] * rest[2],
            rest[2] * similarities[k][2]>>

\* The similarity r is the number n / d
Is(r, n, d) == r[1] * d = n * r[2]

\* cross_verify adds and divides in IEEE doubles.  The sums of similarities
\* that are exactly 0.7 * len(similarities) in the reals do not all come out
\* as 0.7 after the division.  For texts of up to four characters and up to
\* four responses these are: 0.5 + 0.8 + 0.8 in any order, which gives
\* 2.1 / 3 = 0.7000000000000001; and three times 0.4 with three times 1.0,
\* which gives 4.2 / 6 = 0.7000000000000001 in every order the two loops
\* can produce except 0.4 + 1.0 + 1.0 + 0.4 + 0.4 + 1.0, which gives
\* 4.199999999999999 / 6 = 0.6999999999999998.
\* Every other average is further from 0.7 than a double's rounding error.
RoundsAbove(similarities) ==
  \/ /\ Len(similarities) = 3
     /\ Cardinality({ k \in 1..3 : Is(similarities[k], 1, 2) }) = 1
     /\ Cardinality({ k \in 1..3 : Is(similarities[k], 4, 5) }) = 2
  \/ /\ Len(similarities) = 6
     /\ Cardinality({ k \in 1..6 : Is(similarities[k], 2, 5) }) = 3
     /\ Cardinality({ k \in 1..6 : Is(similarities[k], 1, 1) }) = 3
     /\ ~(\A k \in {1, 4, 5} : Is(similarities[k], 2, 5))

\* `avg_similarity > 0.7` with the average taken in exact arithmetic
AverageAboveExactly(similarities) ==
  LET total == SumOf(similarities, Len(similarities))
  IN 10 * total[1] > 7 * Len(similarities) * total[2]

\* cross_verify, lines 315-318: `consensus = avg_similarity > 0.7`
AverageAbove(similarities) ==
  AverageAboveExactly(similarities) \/ RoundsAbove(similarities)

\* The response with the lowest confidence selected instead
SelectedLowest(list) ==
  CHOOSE i \in 1..Len(list) : \A j \in 1..Len(list) : list[i].confidence <= list[j].confidence

\* max(responses, key=lambda r: r.confidence): the first of the largest
Selected(list) ==
  CHOOSE i \in 1..Len(list) :
    /\ \A j \in 1..Len(list) : list[j].confidence <= list[i].confidence
    /\ \A j \in 1..(i - 1) : list[j].confidence < list[i].confidence

\* cross_verify, lines 324-331: one entry per response that is not the
\* selected one (two LLMResponse objects differ at least in their
\* timestamps), with the similarity the message shows: similarities[i] for
\* the response's index i in the list, 0 beyond the end of similarities
Discrepancies(list, similarities) ==
  LET others == SelectSeq([i \in 1..Len(list) |-> i], LAMBDA i : i # Selected(list))
  IN [k \in 1..Len(others) |->
        [response |-> others[k],
         similarity |-> IF others[k] <= Len(similarities)
                        THEN similarities[others[k]] ELSE <<0, 1>>]]

\* cross_verify(task, responses)
CrossVerify ==
  /\ ~verification.called
  /\ verification' =
       IF Len(responses) < 2
       THEN [called |-> TRUE, consensus |-> TRUE,
             selected_response |-> IF responses # << >> THEN 1 ELSE 0,
             discrepancies |-> << >>,
             confidence |-> IF responses # << >> THEN responses[1].confidence ELSE 0]
       ELSE LET similarities == Similarities(responses)
                consensus == AverageAbove(similarities)
                selected == Selected(responses)
            IN [called |-> TRUE, consensus |-> consensus,
                selected_response |-> selected,
                discrepancies |-> IF consensus THEN << >>
                                  ELSE Discrepancies(responses, similarities),
                confidence |-> IF consensus THEN responses[selected].confidence
                               ELSE (responses[selected].confidence * 5) \div 10]
  /\ UNCHANGED responses
  /\ UNCHANGED notVerifyVars

\* A caller holds any list of responses.
InitVerify ==
  /\ InitOrchestrator /\ workflow = Workflow(4)
  /\ InitManager
  /\ InitTool
  /\ InitFabricWith({})
  /\ \E list \in ResponseLists : InitVerifyWith(list)
  /\ InitLater
  /\ error_text = None
  /\ handled = NotHandled

NextVerify == CrossVerify

SpecVerify == InitVerify /\ [][NextVerify]_vars

\* ------------------------------------------ call_llm called from threads
\* Neither call_llm nor update_performance takes a lock, and the provider
\* object of the registry is shared by all callers.  Each statement of
\* update_performance reads a field of the provider, computes, and writes
\* the field; a thread can be preempted between the read and the write
\* (`min` and `max` are calls), so each call is cut there.

\* The provider every thread calls: gpt-4 of openai, the first default.
FeedbackKey == Key(DefaultProviders[1])

\* update_performance applied to the provider as a thread sees it: with the
\* field it read before it was preempted in place of the field's value now
UpdatedFrom(field, read, latency, success) ==
  LET seen == IF field = "avg_latency"
              THEN [ProviderAt(providers, FeedbackKey) EXCEPT !.avg_latency = read]
              ELSE [ProviderAt(providers, FeedbackKey) EXCEPT !.reliability_score = read]
  IN UpdatePerformance(<<seen>>, FeedbackKey, latency, success)[1]

\* providers with one field of the provider written
WriteField(field, value) ==
  [i \in 1..Len(providers) |->
     IF Key(providers[i]) # FeedbackKey THEN providers[i]
     ELSE IF field = "avg_latency" THEN [providers[i] EXCEPT !.avg_latency = value]
     ELSE [providers[i] EXCEPT !.reliability_score = value]]

\* call_llm, lines 248-261 and 278-280: the provider instance is looked up
\* or created, provider_instance.call returns a response or raises, and
\* update_performance is entered with success True or False.
FeedbackStart(t) ==
  /\ feedback.th[t].pc = "idle"
  /\ feedback.succeeded + feedback.failed
       + Cardinality({u \in Threads : feedback.th[u].pc # "idle"}) < MaxFeedbackCalls
  /\ InstanceError(FeedbackKey) = ""
  /\ provider_instances' = provider_instances \cup {FeedbackKey}
  /\ \E ok \in BOOLEAN :
       feedback' = [feedback EXCEPT !.th[t] = [pc |-> "read_latency", success |-> ok, read |-> 0]]
  /\ UNCHANGED <<providers, api_keys, fab, fabric_calls>>
  /\ UNCHANGED <<orchestratorVars, error_text, handled, managerVars, toolVars, verifyVars,
                 webhook, redis>>

\* update_performance, lines 122-129, one read or one write at a time:
\* `provider.avg_latency = (provider.avg_latency * 0.9) + (latency * 0.1)`,
\* then `provider.reliability_score = min(1.0, ... + 0.01)` or
\* `max(0.0, ... - 0.05)`; after the last write call_llm returns the
\* response or raises again.
FeedbackStep(t) ==
  LET me == feedback.th[t]
      provider == ProviderAt(providers, FeedbackKey)
      latency == IF me.success THEN ResponseLatency ELSE 0
  IN
  /\ me.pc # "idle"
  /\ \/ /\ me.pc = "read_latency"
        /\ feedback' = [feedback EXCEPT !.th[t].pc = "write_latency",
                                        !.th[t].read = provider.avg_latency]
        /\ UNCHANGED providers
     \/ /\ me.pc = "write_latency"
        /\ providers' = WriteField("avg_latency",
                           UpdatedFrom("avg_latency", me.read, latency, me.success).avg_latency)
        /\ feedback' = [feedback EXCEPT !.th[t].pc = "read_reliability"]
     \/ /\ me.pc = "read_reliability"
        /\ feedback' = [feedback EXCEPT !.th[t].pc = "write_reliability",
                                        !.th[t].read = provider.reliability_score]
        /\ UNCHANGED providers
     \/ /\ me.pc = "write_reliability"
        /\ providers' = WriteField("reliability_score",
                           UpdatedFrom("reliability_score", me.read, latency,
                                       me.success).reliability_score)
        /\ feedback' = [feedback EXCEPT
                          !.th[t] = [pc |-> "idle", success |-> FALSE, read |-> 0],
                          !.succeeded = @ + (IF me.success THEN 1 ELSE 0),
                          !.failed = @ + (IF me.success THEN 0 ELSE 1)]
  /\ UNCHANGED <<api_keys, provider_instances, fab, fabric_calls>>
  /\ UNCHANGED <<orchestratorVars, error_text, handled, managerVars, toolVars, verifyVars,
                 webhook, redis>>

\* IntelligenceFabric(api_keys={"openai": ...})
InitFeedback ==
  /\ InitOrchestrator /\ workflow = Workflow(4)
  /\ InitManager
  /\ InitTool
  /\ InitFabricWith({"openai"})
  /\ InitVerifyWith(<< >>)
  /\ InitLater
  /\ error_text = None
  /\ handled = NotHandled

NextFeedback == \E t \in Threads : FeedbackStart(t) \/ FeedbackStep(t)

SpecFeedback == InitFeedback /\ [][NextFeedback]_vars

\* -------------------------------------------------- StripeWebhookHandler
\* An event is modelled by its "type" and by the keys that are present in it
\* on the path a handler reads: "data", "object" (event["data"]["object"])
\* and the keys of that object.

\* event_handlers.get(event_type) with an unknown type answered by the
\* customer.created handler
EventHandlersWithDefault(event_type) ==
  CASE event_type = "payment_intent.succeeded" -> "handle_payment_intent_succeeded"
    [] event_type = "payment_intent.failed" -> "handle_payment_intent_failed"
    [] event_type = "customer.subscription.created" -> "handle_subscription_created"
    [] event_type = "customer.subscription.updated" -> "handle_subscription_updated"
    [] event_type = "customer.subscription.deleted" -> "handle_subscription_deleted"
    [] event_type = "invoice.payment_succeeded" -> "handle_invoice_payment_succeeded"
    [] event_type = "invoice.payment_failed" -> "handle_invoice_payment_failed"
    [] event_type = "customer.updated" -> "handle_customer_updated"
    [] event_type = "payment_method.attached" -> "handle_payment_method_attached"
    [] event_type = "payment_method.detached" -> "handle_payment_method_detached"
    [] OTHER -> "handle_customer_created"

\* self.event_handlers.get(event_type): the handler method, "" for None
EventHandlers(event_type) ==
  CASE event_type = "payment_intent.succeeded" -> "handle_payment_intent_succeeded"
    [] event_type = "payment_intent.failed" -> "handle_payment_intent_failed"
    [] event_type = "customer.subscription.created" -> "handle_subscription_created"
    [] event_type = "customer.subscription.updated" -> "handle_subscription_updated"
    [] event_type = "customer.subscription.deleted" -> "handle_subscription_deleted"
    [] event_type = "invoice.payment_succeeded" -> "handle_invoice_payment_succeeded"
    [] event_type = "invoice.payment_failed" -> "handle_invoice_payment_failed"
    [] event_type = "customer.created" -> "handle_customer_created"
    [] event_type = "customer.updated" -> "handle_customer_updated"
    [] event_type = "payment_method.attached" -> "handle_payment_method_attached"
    [] event_type = "payment_method.detached" -> "handle_payment_method_detached"
    [] OTHER -> ""

\* The keys a handler reads with event[...] or object[...], in the order it
\* reads them (a key read with .get is not among them)
KeysRead(handler) ==
  <<"data", "object">> \o
  (CASE handler \in {"handle_payment_intent_succeeded", "handle_payment_intent_failed"}
          -> <<"id", "amount", "currency", "metadata">>
     [] handler = "handle_subscription_created"
          -> <<"id", "customer", "status", "metadata", "current_period_start",
               "current_period_end">>
     [] handler = "handle_subscription_updated" -> <<"id", "customer", "status", "metadata">>
     [] handler = "handle_subscription_deleted" -> <<"id", "customer", "metadata">>
     [] handler = "handle_invoice_payment_succeeded"
          -> <<"id", "customer", "amount_paid", "currency">>
     [] handler = "handle_invoice_payment_failed"
          -> <<"id", "customer", "amount_due", "currency">>
     [] handler \in {"handle_customer_created", "handle_customer_updated"}
          -> <<"id", "email", "metadata">>
     [] handler \in {"handle_payment_method_attached", "handle_payment_method_detached"}
          -> <<"id", "type">>)

\* The "status" of the dictionary a handler returns ("" if it has none;
\* "active" stands for the status of the subscription in the event)
ResultStatus(handler) ==
  CASE handler = "handle_payment_intent_succeeded" -> "completed"
    [] handler = "handle_payment_intent_failed" -> "failed"
    [] handler \in {"handle_subscription_created", "handle_subscription_updated"} -> "active"
    [] handler = "handle_subscription_deleted" -> "cancelled"
    [] handler = "handle_invoice_payment_succeeded" -> "paid"
    [] handler = "handle_invoice_payment_failed" -> "payment_failed"
    [] handler = "handle_payment_method_detached" -> "detached"
    [] OTHER -> ""

\* The events: each with all the keys the handlers read, or all but one.
\* The types: the eleven of event_handlers, one that is not among them, and
\* "" for an event without a "type".
WebhookEvents ==
  LET keys_read == UNION { {KeysRead(EventHandlers(type))[k] :
                              k \in 1..Len(KeysRead(EventHandlers(type)))} :
                           type \in {"payment_intent.succeeded", "customer.subscription.created",
                                     "invoice.payment_succeeded", "invoice.payment_failed",
                                     "customer.created", "payment_method.attached"} }
  IN { [type |-> type, keys |-> keys] :
         type \in {"payment_intent.succeeded", "payment_intent.failed",
                   "customer.subscription.created", "customer.subscription.updated",
                   "customer.subscription.deleted", "invoice.payment_succeeded",
                   "invoice.payment_failed", "customer.created", "customer.updated",
                   "payment_method.attached", "payment_method.detached",
                   "unknown.event.type", ""},
         keys \in {keys_read} \cup {keys_read \ {k} : k \in keys_read} }

\* handle_webhook(event): no handler, "ignored"; the handler returns,
\* "success" with its result; the handler raises (KeyError of the first key
\* it reads that is missing), "error" with str(e).
HandleWebhook ==
  \E event \in WebhookEvents :
    LET handler == EventHandlers(event.type)
        missing == SelectSeq(KeysRead(handler), LAMBDA k : k \notin event.keys)
    IN
    /\ webhook' =
         IF handler = ""
         THEN [called |-> TRUE, event |-> event, status |-> "ignored", handler |-> "",
               result |-> "", error |-> ""]
         ELSE IF missing = << >>
         THEN [called |-> TRUE, event |-> event, status |-> "success", handler |-> handler,
               result |-> ResultStatus(handler), error |-> ""]
         ELSE [called |-> TRUE, event |-> event, status |-> "error", handler |-> handler,
               result |-> "", error |-> missing[1]]
    /\ UNCHANGED <<orchestratorVars, error_text, handled, managerVars, toolVars, fabricVars,
                   verifyVars, feedback, redis>>

SpecWebhook == InitOther /\ [][HandleWebhook]_vars

\* ---------------------------------------------------------------- EventBus
\* The Redis server holds the stream of one event type and the consumer
\* group subscribe created on it.  `stream` is the number of entries (entry k
\* has id k), `last_delivered` the group's last-delivered id, `pending` the
\* group's pending entries list.  History: `deliveries[k]` counts the times
\* entry k was handed to a callback; `consumes`, `read_failed`, `read`,
\* `raised` and `processed` describe the consume calls made and the last one
\* of them: whether its XREADGROUP raised, the entries it read, those whose
\* processing raised, and the number it returned.

\* EventBus.publish(event_type, payload): XADD appends the entry.
PublishEvent ==
  /\ redis.stream < MaxEvents
  /\ redis' = [redis EXCEPT !.stream = @ + 1, !.deliveries = Append(@, 0)]
  /\ UNCHANGED <<orchestratorVars, error_text, handled, managerVars, toolVars, fabricVars,
                 verifyVars, feedback, webhook>>

\* EventBus.consume(subscription, callback) on a subscription to the one
\* event type.  XREADGROUP with the id ">" returns the entries that were
\* never delivered to a consumer of the group (at most `count`, 10), moves
\* last_delivered to the last of them and puts them on the pending list; a
\* RedisError is logged and nothing is read.  For each entry read: the event
\* is parsed and the callback called; XACK takes the entry off the pending
\* list and it is counted; if the callback (or the XACK) raises, the error is
\* logged and the entry is neither acknowledged nor counted.
Consume ==
  /\ redis.consumes < MaxConsumes
  /\ \/ redis' = [redis EXCEPT !.consumes = @ + 1, !.read_failed = TRUE, !.read = {},
                                !.raised = {}, !.processed = 0]
     \/ LET messages == (redis.last_delivered + 1)..redis.stream
        IN \E raising \in SUBSET messages :
             redis' = [redis EXCEPT
                         !.consumes = @ + 1,
                         !.read_failed = FALSE,
                         !.last_delivered = redis.stream,
                         !.pending = @ \cup raising,
                         !.deliveries = [k \in DOMAIN @ |->
                                           IF k \in messages THEN @[k] + 1 ELSE @[k]],
                         !.read = messages,
                         !.raised = raising,
                         !.processed = Cardinality(messages \ raising)]
  /\ UNCHANGED <<orchestratorVars, error_text, handled, managerVars, toolVars, fabricVars,
                 verifyVars, feedback, webhook>>

NextEventBus == PublishEvent \/ Consume

SpecEventBus == InitOther /\ [][NextEventBus]_vars

\* ================================================================ claims
\* Positions of execution_order: <<group, index in group>>
Positions ==
  UNION { {<<g, i>> : i \in 1..Len(workflow.execution_order[g])} :
          g \in 1..Len(workflow.execution_order) }

StepIdAt(p) == workflow.execution_order[p[1]][p[2]]

Before(p, q) == p[1] < q[1] \/ (p[1] = q[1] /\ p[2] < q[2])

\* The states the specification calls terminal.
TerminalStates == {"completed", "failed", "cancelled"}

Escalations == {k \in 1..Len(recoveries) : recoveries[k].action = "escalate"}

\* C1: once the workflow's state is COMPLETED, FAILED or CANCELLED, an
\* operation invoked on it (execute_workflow on the object, pause_workflow or
\* resume_workflow on the snapshot) changes neither the state of the object
\* nor the state in the snapshot.
C1_TerminalStateUnchanged ==
  [][ /\ (~Running /\ workflow.state \in TerminalStates)
         => workflow'.state = workflow.state
      /\ (~Running /\ store.exists /\ store.state \in TerminalStates)
         => (store'.exists /\ store'.state = store.state) ]_vars

\* C2: whenever handle_failure returned "escalate" for a step, no step after
\* that step is started, and the run ends FAILED with success = false.
C2_EscalateAbortsWorkflow ==
  \A k \in Escalations :
    /\ \A p \in started : ~Before(recoveries[k].pos, p)
    /\ pc = "done" => (workflow.state = "failed" /\ ~wf_result.success)

\* C3: a run ends FAILED (success = false) only if some handle_failure call
\* returned "escalate"; a run in which every recovery action was retry,
\* llm_swap or agent_swap starts every step and ends COMPLETED.
C3_OnlyEscalateFails ==
  pc = "done" =>
    /\ (workflow.state = "failed" \/ ~wf_result.success) => Escalations # {}
    /\ Escalations = {} =>
         (workflow.state = "completed" /\ wf_result.success /\ started = Positions)

\* What C3 asks, for the workflows whose execution_order has a group.
NonEmptyRunsFailOnlyOnEscalate ==
  Len(workflow.execution_order) > 0 => C3_OnlyEscalateFails

\* The steps whose TaskResult came back failed although attempts were made.
FailedOnEveryAttempt == {o \in outcomes : ~o.success /\ o.attempts >= 1}

\* C4: when exactly one step fails on every attempt and its failure
\* escalates, the run ends FAILED and reports steps_failed = 1 and
\* steps_completed = the number of steps that succeeded before it.
C4_OneFailedStepCounted ==
  (/\ pc = "done"
   /\ Cardinality({o \in outcomes : ~o.success}) = 1
   /\ Cardinality(FailedOnEveryAttempt) = 1
   /\ \E k \in Escalations : recoveries[k].handler = "result")
  => /\ workflow.state = "failed"
     /\ ~wf_result.success
     /\ wf_result.steps_failed = 1
     /\ wf_result.steps_completed = Cardinality({o \in outcomes : o.success})

\* Every step of execution_order ran and succeeded on its first attempt.
AllSucceededFirstTry ==
  \A p \in Positions : [pos |-> p, success |-> TRUE, attempts |-> 1] \in outcomes

\* C5: when every step succeeds on its first attempt the run ends COMPLETED
\* with success = true, steps_completed = the number of steps in
\* execution_order and steps_failed = 0.
C5_AllStepsSucceed ==
  (pc = "done" /\ AllSucceededFirstTry)
  => /\ workflow.state = "completed"
     /\ wf_result.success
     /\ wf_result.steps_completed = Cardinality(Positions)
     /\ wf_result.steps_failed = 0

\* What C5 asks, for the workflows whose execution_order has a group.
NonEmptyAllStepsSucceed ==
  Len(workflow.execution_order) > 0 => C5_AllStepsSucceed

\* The linear three-step workflow has completed with every step succeeding
\* on its first attempt.
LinearScenarioReached ==
  /\ pc = "done" /\ AllSucceededFirstTry /\ Cardinality(Positions) = 3
  /\ Len(workflow.execution_order) = 3
  /\ wf_result.success /\ wf_result.steps_completed = 3 /\ wf_result.steps_failed = 0

\* C6: groups run in sequence: when a step of a group has been started,
\* every step of every earlier group has been handled and left behind.
C6_GroupsInSequence ==
  \A p \in started : \A q \in Positions : q[1] < p[1] => q \in resolved

\* A step of the second group has started after a two-step first group in
\* which one step failed and the failure was handled by a swap.
C6_Witness ==
  /\ <<2, 1>> \in started
  /\ Len(workflow.execution_order[1]) = 2
  /\ \E o \in outcomes : o.pos[1] = 1 /\ ~o.success
  /\ Escalations = {}

\* C7: no step is started before every step listed in its dependencies has
\* been handled.
C7_DependenciesFirst ==
  \A p \in started :
    \A d \in workflow.steps[StepIdAt(p)].dependencies :
      \E q \in resolved : StepIdAt(q) = d

\* C8: within a group every step is dispatched before any of them is waited
\* for: when execute_step has returned for a step, every step of its group
\* has been started.
C8_GroupDispatchedBeforeWait ==
  pc = "result" =>
    \A i \in 1..Len(workflow.execution_order[group]) : <<group, i>> \in started

\* C9: once the workflow was cancelled during a run, no new step group is
\* dispatched by that run.
C9_NoGroupAfterCancel ==
  [][ cancelled_in_run => \A p \in started' \ started : p[2] # 1 ]_vars

\* C10: pause_workflow returns true exactly when the snapshot exists with
\* state RUNNING, and then persists PAUSED; resume_workflow returns true
\* exactly when it exists with state PAUSED, and then persists RUNNING; a call
\* that returns false leaves the snapshot as it was and publishes nothing.
C10_PauseResumeGuarded ==
  [][ (ctl'.n # ctl.n /\ ctl'.op \in {"pause", "resume"}) =>
        LET from == IF ctl'.op = "pause" THEN "running" ELSE "paused"
            to == IF ctl'.op = "pause" THEN "paused" ELSE "running"
            published == IF ctl'.op = "pause"
                         THEN [control_events EXCEPT !.paused = @ + 1]
                         ELSE [control_events EXCEPT !.resumed = @ + 1]
        IN /\ ctl'.ret = (store.exists /\ store.state = from)
           /\ ctl'.ret => (store'.exists /\ store'.state = to /\ control_events' = published)
           /\ ~ctl'.ret => (store' = store /\ control_events' = control_events
                            /\ events' = events) ]_vars

\* resume_workflow has returned true on a snapshot that pause_workflow paused.
C10_Witness ==
  /\ ctl.op = "resume" /\ ctl.ret
  /\ store.state = "running"
  /\ control_events.paused = 1 /\ control_events.resumed = 1

SameWorkflow(a, b) ==
  /\ a.workflow_id = b.workflow_id /\ a.state = b.state /\ a.steps = b.steps
  /\ a.execution_order = b.execution_order /\ a.metadata = b.metadata

\* C12: restore_state after persist_state(workflow) gives back a workflow with
\* the same id, state, steps, execution order and metadata, and restore_state
\* gives None while no snapshot exists.
C12_PersistRestoreRoundTrip ==
  [][ /\ ~store'.exists => RestoreState(store') = None
      /\ (workflow' # workflow \/ runs' # runs
          \/ (ctl'.n # ctl.n /\ ctl'.op = "persist"))
         => (RestoreState(store') # None /\ SameWorkflow(RestoreState(store'), workflow')) ]_vars

\* execute_step is running or has just returned for the current step.
InExecuteStep == pc \in {"attempt", "result"}

\* Attempts execute_step has made for the current step: the failed ones, and
\* the successful one if it returned a success.
AttemptsMade ==
  retry_count + (IF pc = "result" /\ task_result.success THEN 1 ELSE 0)

\* C13: when every attempt of a step raised, execute_step does not return
\* normally: its caller never receives a TaskResult from it (the last error
\* reaches the caller as an exception instead).
C13_ExhaustedStepRaises ==
  (pc = "result" /\ retry_count >= 1
   /\ retry_count >= CurrentStep.retry_config.max_attempts)
  => task_result.success

\* C14: execute_step makes at most max_attempts attempts and then ends; a
\* successful attempt is the last one; it sleeps only between two attempts,
\* never after the last.
C14_BoundedAttempts ==
  InExecuteStep =>
    /\ AttemptsMade <= CurrentStep.retry_config.max_attempts
    /\ (pc = "result" /\ task_result.success) => AttemptsMade = retry_count + 1
    /\ (pc = "result" /\ ~task_result.success)
         => retry_count >= CurrentStep.retry_config.max_attempts
    /\ pc = "result" => Len(delays) = (IF AttemptsMade = 0 THEN 0 ELSE AttemptsMade - 1)
    /\ pc = "attempt" =>
         /\ Len(delays) <= retry_count
         /\ Len(delays) < CurrentStep.retry_config.max_attempts
              \/ CurrentStep.retry_config.max_attempts = 0
         /\ ENABLED (StepAttempt \/ StepExhausted)

\* execute_step has returned a failure after MaxAttempts failed attempts with
\* a sleep between each two of them.
C14_Witness ==
  /\ pc = "result" /\ ~task_result.success
  /\ CurrentStep.retry_config.max_attempts = MaxAttempts
  /\ retry_count = MaxAttempts /\ Len(delays) = MaxAttempts - 1

\* C15: the delay before the n-th retry of a step is
\* min(initial_delay_seconds * backoff_multiplier^(n-1), max_delay_seconds).
C15_BackoffDelay ==
  InExecuteStep =>
    \A n \in 1..Len(delays) :
      delays[n] = Min(CurrentStep.retry_config.initial_delay_seconds
                        * CurrentStep.retry_config.backoff_multiplier ^ (n - 1),
                      CurrentStep.retry_config.max_delay_seconds)

\* The failure types the classifier tests for, in the order the claim gives,
\* each with its keywords.
ClaimedPriority ==
  << [type |-> "timeout", keywords |-> {"timeout"}],
     [type |-> "resource_exhaustion", keywords |-> {"rate limit", "quota"}],
     [type |-> "policy_violation", keywords |-> {"policy", "unauthorized"}],
     [type |-> "model_error", keywords |-> {"model", "llm"}],
     [type |-> "tool_error", keywords |-> {"tool"}] >>

\* The places of ClaimedPriority with a keyword that occurs in the text.
MatchingPlaces(text) ==
  {k \in 1..Len(ClaimedPriority) :
     \E kw \in ClaimedPriority[k].keywords : Contains(text, kw)}

ClaimedAction(failure_type) ==
  CASE failure_type = "model_error" -> "llm_swap"
    [] failure_type = "tool_error" -> "agent_swap"
    [] failure_type = "transient" -> "retry"
    [] OTHER -> "escalate"

\* C16: handle_failure classifies an error by the first keyword class, in
\* the order timeout, rate limit/quota, policy/unauthorized, model/llm, tool,
\* that occurs in the lower-cased text (UNKNOWN if none does), publishes that
\* type, and returns llm_swap for MODEL_ERROR, agent_swap for TOOL_ERROR,
\* retry for TRANSIENT and escalate for every other type.
C16_ClassificationPriority ==
  /\ handled # NotHandled =>
       LET places == MatchingPlaces(error_text)
           first == CHOOSE k \in places : \A j \in places : k <= j
       IN /\ handled.failure_type =
               (IF places = {} THEN "unknown" ELSE ClaimedPriority[first].type)
          /\ handled.event = <<"workflow.recovery_triggered", handled.failure_type>>
          /\ handled.action = ClaimedAction(handled.failure_type)
  /\ \A failure_type \in FailureTypes :
       RecoveryFor(failure_type) = ClaimedAction(failure_type)

\* handle_failure was handed "model timeout": TIMEOUT, escalated.
C16_Witness ==
  /\ error_text = <<"model", "timeout">> /\ handled.text = error_text
  /\ handled.failure_type = "timeout" /\ handled.action = "escalate"

\* The handle_failure calls of lines 134 (for a failed TaskResult, while the
\* step's agent is still active) that returned agent_swap.
AgentSwaps ==
  {k \in 1..Len(recoveries) :
     recoveries[k].action = "agent_swap" /\ recoveries[k].handler = "result"}

\* The places of agent_log where an agent was retired with reason "replaced".
Replacements ==
  {j \in 1..Len(agent_log) :
     agent_log[j].op = "retired" /\ agent_log[j].reason = "replaced"}

\* C17: for every agent_swap that handle_failure returned for a failed step,
\* the step's agent has been replaced before the run goes on: it was retired
\* with reason "replaced" and a new agent was spawned right after.
C17_AgentSwapReplacesAgent ==
  /\ Cardinality(Replacements) = Cardinality(AgentSwaps)
  /\ \A j \in Replacements : j < Len(agent_log) /\ agent_log[j + 1].op = "spawned"

\* The agents this run spawned and has not retired since.
Leaked ==
  {agent_log[k].agent : k \in
     {k \in 1..Len(agent_log) :
        /\ agent_log[k].op = "spawned"
        /\ ~\E j \in (k + 1)..Len(agent_log) :
             agent_log[j].op = "retired" /\ agent_log[j].agent = agent_log[k].agent}}

\* C18: when execute_workflow has returned, every agent the run spawned has
\* been retired and none of them is in the active set.
C18_AgentsRetiredAtReturn ==
  pc = "done" => (Leaked = {} /\ \A k \in 1..Len(agent_log) :
                    agent_log[k].op = "spawned" => agent_log[k].agent \notin active_agents)

\* C19: a spawn_agent call that finds the number of active agents at or above
\* max_concurrent_agents raises the capacity error and changes nothing: the
\* active set, the agent memories and the published events stay as they were
\* and no agent id is used up; below the ceiling it does not raise it.
C19_SpawnAtCapacityRejected ==
  [][ \A t \in Threads :
        (th[t].pc = "spawn_check" /\ th'[t] # th[t]) =>
          IF Cardinality(DOMAIN pool) >= MaxConcurrentAgents
          THEN /\ th'[t].pc = "idle" /\ th'[t].ret = "capacity_error"
               /\ pool' = pool /\ agent_memory' = agent_memory /\ bus' = bus
               /\ next_id' = next_id
          ELSE th'[t].pc = "spawn_insert" /\ th'[t].ret # "capacity_error" ]_vars

\* A spawn_agent call has raised the capacity error with the active set
\* exactly at the ceiling, every agent in it ready and announced.
C19_Witness ==
  /\ \E t \in Threads : th[t].op = "spawn" /\ th[t].pc = "idle" /\ th[t].ret = "capacity_error"
  /\ Cardinality(DOMAIN pool) = MaxConcurrentAgents
  /\ \A a \in DOMAIN pool : pool[a] = "ready" /\ a \in agent_memory /\ a \in bus.spawned
  /\ Cardinality(bus.spawned) = MaxConcurrentAgents

\* C20: however concurrent spawn_agent, retire_agent and replace_agent calls
\* interleave, the active set never holds more than max_concurrent_agents
\* agents.
C20_CeilingNeverExceeded ==
  Cardinality(DOMAIN pool) <= MaxConcurrentAgents

Names(list) == {list[i] : i \in 1..Len(list)}

\* C22 as stated: of two agents spawned with trust levels T1 < T2, every tool
\* in the allowed-tool list of the first is in the list of the second.
C22_AllowedToolListsNested ==
  \A a, b \in DOMAIN agents :
    TrustRank(agents[a].trust_level) < TrustRank(agents[b].trust_level)
      => Names(agents[a].allowed_tools) \subseteq Names(agents[b].allowed_tools)

\* C22 amended: of two agents spawned with trust levels T1 < T2, every tool
\* in the allowed-tool list of the first is allowed by the list of the second:
\* it is in that list, or that list is the wildcard "all" (the list of
\* privileged); below privileged the lists are nested as stated.
C22_AllowedToolsMonotone ==
  \A a, b \in DOMAIN agents :
    TrustRank(agents[a].trust_level) < TrustRank(agents[b].trust_level)
      => /\ \A tool \in Names(agents[a].allowed_tools) :
              ToolAllowed(agents[b].allowed_tools, tool)
         /\ agents[b].trust_level # "privileged"
              => Names(agents[a].allowed_tools) \subseteq Names(agents[b].allowed_tools)
         /\ agents[b].trust_level = "privileged" => agents[b].allowed_tools = <<"all">>

\* An elevated and a privileged agent have been spawned and are both active.
C22_Witness ==
  \E a, b \in DOMAIN pool :
    /\ agents[a].trust_level = "elevated" /\ agents[b].trust_level = "privileged"
    /\ pool[a] = "ready" /\ pool[b] = "ready"

\* Thread t made the latest AgentManager call, a replace_agent on an agent
\* that was active, while no other thread was inside the manager, and the
\* call is over; no Redis command has failed.
ReplacedAlone(t) ==
  /\ th[t].op = "replace" /\ th[t].pc = "idle"
  /\ th[t].solo = calls
  /\ th[t].ret # "value_error"
  /\ bus.errors = 0

\* C23: a replace_agent call on an active agent, run with no other call to
\* the manager in its way, returns a new agent with a fresh id, the old
\* agent's capabilities, trust level and goal, and the old agent's failure
\* history followed by one new FailureRecord; the old agent is RETIRED and
\* not active, the new one READY and active, the active count as before.
C23_ReplaceAgentResult ==
  \A t \in Threads :
    ReplacedAlone(t) =>
      /\ th[t].ret = "agent"
      /\ th[t].new \in DOMAIN agents /\ th[t].new # th[t].target
      /\ LET old == agents[th[t].target]
             new == agents[th[t].new]
         IN /\ new.capabilities = old.capabilities
            /\ new.trust_level = old.trust_level
            /\ new.goal = old.goal
            /\ new.failure_history =
                 Append(old.failure_history, FailureRecord(th[t].target, ReplaceReason))
            /\ old.status = "retired" /\ th[t].target \notin DOMAIN pool
            /\ new.status = "ready" /\ th[t].new \in DOMAIN pool
            /\ pool[th[t].new] = "ready"
      /\ Cardinality(DOMAIN pool) = th[t].active

\* The condition C24 gives for an authorized call: the agent's trust level
\* is at least the level the tool requires, and the tool's name or "all" is
\* among the agent's allowed tools.
Authorized(call) ==
  /\ TrustRank(call.agent.trust_level) >= TrustRank(call.required_trust_level)
  /\ \/ call.tool \in Names(AllowedTools(call.agent.trust_level))
     \/ "all" \in Names(AllowedTools(call.agent.trust_level))

\* C24: an execute_tool call runs a container only if the agent is
\* authorized for the tool at that call; an unauthorized call returns a
\* failed ToolResult, runs no container and leaves the rate-limit
\* timestamps as they were.
C24_NoContainerWithoutAuthorization ==
  [][ tool_calls' # tool_calls =>
        /\ containers' # containers => Authorized(tool_result')
        /\ ~Authorized(tool_result') =>
             /\ ~tool_result'.success /\ tool_result'.error = "not authorized"
             /\ containers' = containers
             /\ rate_limits' = rate_limits ]_vars

\* An unauthorized call was refused after an authorized call of the same
\* tool had run in a container and taken the tool's whole quota of one call.
C24_Witness ==
  /\ tool_result.called /\ ~Authorized(tool_result)
  /\ tool_result.tool = "execute_command"
  /\ containers = <<"execute_command">>
  /\ rate_limits = [execute_command |-> <<0>>]
  /\ TrustRank(tool_result.agent.trust_level) >= TrustRank(tool_result.required_trust_level)

\* The claimed order of C25: a comes strictly before b.
RanksBefore(a, b) ==
  \/ a.reliability_score > b.reliability_score
  \/ a.reliability_score = b.reliability_score /\ a.cost_per_token < b.cost_per_token
  \/ /\ a.reliability_score = b.reliability_score /\ a.cost_per_token = b.cost_per_token
     /\ a.avg_latency < b.avg_latency

\* The registered providers whose model name matches the role's preferred
\* models
Matching(role) ==
  { i \in 1..Len(providers) :
      \E model \in RolePreferences(role) : model \in PreferredIn(providers[i].model_name) }

\* C25: route_task returns one of the registered providers that match the
\* role, and none of the others that match comes before it in the order
\* (reliability, then cost, then latency); with no match it raises and
\* returns nothing.
C25_RouteTaskPicksFirst ==
  (fab.op = "route") =>
    IF Matching(fab.role) = {}
    THEN fab.error = "no_providers" /\ fab.result = None
    ELSE /\ fab.error = ""
         /\ \E i \in Matching(fab.role) :
              /\ Key(providers[i]) = fab.result
              /\ \A j \in Matching(fab.role) : ~RanksBefore(providers[j], providers[i])

\* route_task chose between two matching providers of the same reliability
\* and cost by their latency, and took the one registered later.
C25_Witness ==
  /\ fab.op = "route" /\ fab.result = <<"azure", "gpt-4">>
  /\ ProviderAt(providers, <<"openai", "gpt-4">>).reliability_score = FullReliability
  /\ ProviderAt(providers, <<"openai", "gpt-4">>).avg_latency > 0

\* route_task raised for a role no provider matches.
C25_WitnessNoProvider == fab.op = "route" /\ fab.error = "no_providers"

\* C26: every call_llm that raised, called on its own or by
\* execute_with_fallback, has lowered the provider's reliability by 0.05, or
\* to 0.0 from less than that.
C26_FailedCallLowersReliability ==
  \A k \in 1..Len(fab.tried) :
    fab.tried[k].error # "" =>
      /\ fab.tried[k].after = Max(0, fab.tried[k].before - FailureLoss)
      /\ fab.tried[k].before > 0 => fab.tried[k].after < fab.tried[k].before

\* C27: every provider's reliability is within [0, 1]; a call_llm that
\* returned has raised it by 0.01, up to 1.0 at most, and a call_llm that
\* raised has lowered it by 0.05, down to 0.0 at most.
C27_ReliabilityArithmetic ==
  /\ \A i \in 1..Len(providers) :
       providers[i].reliability_score \in 0..FullReliability
  /\ \A k \in 1..Len(fab.tried) :
       LET call == fab.tried[k]
       IN /\ call.before \in 0..FullReliability /\ call.after \in 0..FullReliability
          /\ call.error = "" =>
               /\ call.after = Min(FullReliability, call.before + SuccessGain)
               /\ call.before < FullReliability => call.after > call.before
          /\ call.error # "" =>
               /\ call.after = Max(0, call.before - FailureLoss)
               /\ call.before > 0 => call.after < call.before

\* The part of C27 that does not depend on which calls count as failures:
\* the reliability of every registered provider is within [0, 1].
C27_ReliabilityInRange ==
  \A i \in 1..Len(providers) : providers[i].reliability_score \in 0..FullReliability

\* execute_with_fallback has returned a response.
FallbackReturned == fab.op = "fallback" /\ fab.pc = "idle" /\ fab.result # None

\* The part of C28 about the order of the calls: the providers called are
\* the first ones of the ranking, in its order, each called once; all but
\* the last failed, the last one succeeded and its response is returned.
C28_RankedOrderFirstSuccess ==
  FallbackReturned =>
    /\ Len(fab.tried) \in 1..Len(fab.ranked)
    /\ \A k \in 1..Len(fab.tried) : fab.tried[k].key = fab.ranked[k]
    /\ \A k \in 1..(Len(fab.tried) - 1) : fab.tried[k].error # ""
    /\ fab.tried[Len(fab.tried)].error = ""
    /\ fab.result = fab.tried[Len(fab.tried)].key
    /\ \A a, b \in 1..Len(fab.ranked) : a # b => fab.ranked[a] # fab.ranked[b]
    /\ { fab.ranked[k] : k \in 1..Len(fab.ranked) } =
         { Key(providers[i]) : i \in Matching(fab.role) }

\* C28: execute_with_fallback calls the role's providers in ranked order and
\* returns the response of the first that succeeds, calling none after it;
\* every provider that failed before it has a lower reliability than before
\* its call.
C28_FallbackFirstSuccess ==
  FallbackReturned =>
    /\ C28_RankedOrderFirstSuccess
    /\ \A k \in 1..(Len(fab.tried) - 1) : fab.tried[k].after < fab.tried[k].before

C30_ConsensusAboveThreshold ==
  verification.called =>
    /\ Len(responses) < 2 => verification.consensus
    /\ Len(responses) >= 2 =>
         (verification.consensus <=> AverageAboveExactly(Similarities(responses)))
    /\ (Len(responses) = 2 /\ responses[1].response = responses[2].response)
         => verification.consensus

\* C30 without the averages that are exactly 0.7: everything else the claim
\* says holds.
C30_ConsensusAwayFromThreshold ==
  verification.called =>
    /\ Len(responses) < 2 => verification.consensus
    /\ (Len(responses) >= 2 /\ ~RoundsAbove(Similarities(responses))) =>
         (verification.consensus <=> AverageAboveExactly(Similarities(responses)))
    /\ (Len(responses) = 2 /\ responses[1].response = responses[2].response)
         => verification.consensus

\* The highest confidence among the responses
HighestConfidence ==
  CHOOSE c \in {responses[i].confidence : i \in 1..Len(responses)} :
    \A i \in 1..Len(responses) : responses[i].confidence <= c

\* C31: the response cross_verify selects has the highest confidence of all,
\* whether there is consensus or not; the confidence it reports is that
\* confidence when it reports consensus and half of it when it does not; for
\* two responses with the same text it is the higher of the two confidences.
C31_HighestConfidenceSelected ==
  (verification.called /\ responses # << >>) =>
    /\ verification.selected_response \in 1..Len(responses)
    /\ responses[verification.selected_response].confidence = HighestConfidence
    /\ verification.consensus => verification.confidence = HighestConfidence
    /\ ~verification.consensus => 2 * verification.confidence = HighestConfidence
    /\ (Len(responses) = 2 /\ responses[1].response = responses[2].response)
         => verification.confidence = HighestConfidence

\* cross_verify found no consensus among three responses, of which the last
\* has the highest confidence, and reports half of that confidence.
C31_Witness ==
  /\ verification.called /\ Len(responses) = 3 /\ ~verification.consensus
  /\ responses[1].confidence < responses[3].confidence
  /\ responses[2].confidence < responses[3].confidence
  /\ verification.selected_response = 3
  /\ 2 * verification.confidence = responses[3].confidence

\* C31, second case: two responses with the same text and different
\* confidences.
C31_WitnessSameText ==
  /\ verification.called /\ Len(responses) = 2
  /\ responses[1].response = responses[2].response /\ responses[1].response # << >>
  /\ responses[1].confidence < responses[2].confidence
  /\ verification.consensus /\ verification.confidence = responses[2].confidence

\* The responses listed as discrepancies, in the order of the list
Listed == [k \in 1..Len(verification.discrepancies) |-> verification.discrepancies[k].response]

\* The responses other than the selected one, in the order of `responses`
Others ==
  SelectSeq([i \in 1..Len(responses) |-> i], LAMBDA i : i # verification.selected_response)

\* C32, the entries: when cross_verify reports no consensus, the discrepancy
\* list has one entry for each response other than the selected one and no
\* other entry; when it reports consensus the list is empty.
C32_OneEntryPerOtherResponse ==
  verification.called =>
    /\ verification.consensus => verification.discrepancies = << >>
    /\ ~verification.consensus => Listed = Others

\* C32: as C32_OneEntryPerOtherResponse, and each entry carries the
\* similarity of its response's text to the selected response's text.
C32_SimilarityToSelected ==
  verification.called =>
    /\ verification.consensus => verification.discrepancies = << >>
    /\ ~verification.consensus =>
         /\ Listed = Others
         /\ \A k \in 1..Len(verification.discrepancies) :
              LET entry == verification.discrepancies[k]
                  ratio == Ratio(responses[entry.response].response,
                                 responses[verification.selected_response].response)
              IN entry.similarity[1] * ratio[2] = ratio[1] * entry.similarity[2]

\* The places of `events` that hold one of the given event types
EventsAt(types) == { k \in 1..Len(events) : events[k] \in types }

StepEnds == {"workflow.step_completed", "workflow.step_failed"}
StepEvents == StepEnds \cup {"workflow.step_started"}
WorkflowEnds == {"workflow.completed", "workflow.failed"}

\* workflow.started is the first event of the run; every
\* workflow.step_started is followed by one workflow.step_completed or
\* workflow.step_failed, and these follow nothing else; the events
\* workflow.completed and workflow.failed come after every step event, and
\* one of them is the last event when the run has returned.
EventsInOrder ==
  /\ events # << >> => EventsAt({"workflow.started"}) = {1}
  /\ \A k \in EventsAt({"workflow.step_started"}) :
       \/ k = Len(events) /\ pc = "attempt"
       \/ k < Len(events) /\ events[k + 1] \in StepEnds
  /\ \A k \in EventsAt(StepEnds) : events[k - 1] = "workflow.step_started"
  /\ \A k \in EventsAt(WorkflowEnds) : \A j \in EventsAt(StepEvents) : j < k
  /\ pc = "done" => events[Len(events)] \in WorkflowEnds

\* C33: the events of one execute_workflow run are in the order of
\* EventsInOrder, and a run that has returned has published exactly one of
\* workflow.completed and workflow.failed.  (That workflow.started is
\* published with RUNNING persisted is C33_StartedWithRunningPersisted.)
C33_LifecycleEvents ==
  /\ EventsInOrder
  /\ pc = "done" => Cardinality(EventsAt(WorkflowEnds)) = 1

\* C33, the start: the first event of a run is workflow.started, and the
\* snapshot holds RUNNING when it is published.
C33_StartedWithRunningPersisted ==
  [][events' # events /\ Len(events') = 1
       => events' = <<"workflow.started">> /\ store'.state = "running"]_vars

\* C33 for the workflows that have a step to run: the run ends with exactly
\* one of the two events; for every workflow the order is that of the claim.
C33_LifecycleEventsWithSteps ==
  /\ EventsInOrder
  /\ (pc = "done" /\ workflow.execution_order # << >>)
       => Cardinality(EventsAt(WorkflowEnds)) = 1

\* The reliability scores k successful and m failed updates can leave,
\* applied one at a time in any order, starting from the score r
RECURSIVE SequentialResults(_, _, _)
SequentialResults(r, k, m) ==
  IF k = 0 /\ m = 0 THEN {r}
  ELSE (IF k > 0 THEN SequentialResults(Min(FullReliability, r + SuccessGain), k - 1, m)
        ELSE {})
       \cup
       (IF m > 0 THEN SequentialResults(Max(0, r - FailureLoss), k, m - 1) ELSE {})

\* C34: when every call_llm call made on the provider has returned or
\* raised, k of them successful and m failed, the provider's reliability is
\* what the k updates of +0.01 and the m updates of -0.05 give when they are
\* applied one after the other in some order.
C34_NoLostUpdate ==
  (\A t \in Threads : feedback.th[t].pc = "idle") =>
    ProviderAt(providers, FeedbackKey).reliability_score
      \in SequentialResults(FullReliability, feedback.succeeded, feedback.failed)

\* The event types StripeWebhookHandler registers a handler for
RegisteredTypes ==
  {"payment_intent.succeeded", "payment_intent.failed", "customer.subscription.created",
   "customer.subscription.updated", "customer.subscription.deleted",
   "invoice.payment_succeeded", "invoice.payment_failed", "customer.created",
   "customer.updated", "payment_method.attached", "payment_method.detached"}

\* C35: handle_webhook returns for every event.  For a type without a
\* registered handler it returns status "ignored" and calls no handler; for
\* a registered type it calls that type's handler and returns status
\* "success" with the handler's result, or status "error" with the error
\* when the handler raises.
C35_WebhookNeverRaises ==
  webhook.called =>
    /\ webhook.status \in {"ignored", "success", "error"}
    /\ webhook.event.type \notin RegisteredTypes
         => webhook.status = "ignored" /\ webhook.handler = ""
    /\ webhook.event.type \in RegisteredTypes
         => /\ webhook.handler # "" /\ webhook.status \in {"success", "error"}
            /\ webhook.status = "success"
                 <=> \A k \in 1..Len(KeysRead(webhook.handler)) :
                       KeysRead(webhook.handler)[k] \in webhook.event.keys
            /\ webhook.status = "success" => webhook.result = ResultStatus(webhook.handler)
            /\ webhook.status = "error" => webhook.error \notin webhook.event.keys

\* handle_webhook was called with an event of a type that has no handler.
C35_Witness ==
  /\ webhook.called /\ webhook.event.type = "unknown.event.type"
  /\ webhook.status = "ignored" /\ webhook.handler = ""

\* C35, second case: the customer.subscription.created handler raised
\* KeyError for an event without current_period_end.
C35_WitnessError ==
  /\ webhook.called /\ webhook.event.type = "customer.subscription.created"
  /\ webhook.status = "error" /\ webhook.error = "current_period_end"

\* C35, third case: the payment_intent.succeeded handler returned.
C35_WitnessSuccess ==
  /\ webhook.called /\ webhook.event.type = "payment_intent.succeeded"
  /\ webhook.status = "success" /\ webhook.result = "completed"

\* C36, the first half: an event whose callback raised during consume is
\* not acknowledged (it is on the pending list when consume returns) and is
\* not counted in the number consume returns.
C36_RaisedNotAcknowledged ==
  /\ redis.raised \subseteq redis.pending
  /\ redis.processed = Cardinality(redis.read \ redis.raised)
  /\ redis.read \cap redis.pending = redis.raised

\* C36: as C36_RaisedNotAcknowledged, and an event that is not acknowledged
\* is delivered again: a consume call that reads the stream hands every
\* entry of the pending list to the callback again.
C36_RedeliveredUntilSuccess ==
  [][ /\ C36_RaisedNotAcknowledged
      /\ (redis'.consumes = redis.consumes + 1 /\ ~redis'.read_failed)
           => redis.pending \subseteq redis'.read ]_vars

\* What happens instead: no entry is handed to a callback twice, whatever
\* consume calls follow, and an entry once pending stays pending.
C36_NeverRedelivered ==
  [][ /\ \A k \in 1..redis'.stream : redis'.deliveries[k] <= 1
      /\ redis.pending \subseteq redis'.pending ]_vars

\* This step is a call of the given operation by another caller.
ControlCall(op) == ctl'.n = ctl.n + 1 /\ ctl'.op = op

\* C37: once pause_workflow has persisted PAUSED, the persisted state stays
\* PAUSED until a resume_workflow call changes it: no step of a running
\* execute_workflow overwrites it.
C37_PausedUntilResumed ==
  [][ (store.state = "paused" /\ store'.state # "paused")
        => ControlCall("resume") /\ ctl'.ret ]_vars

\* C37, what holds: the calls of the other callers leave PAUSED alone
\* (pause_workflow and cancel_workflow do not touch a paused snapshot), and
\* resume_workflow turns it into RUNNING.
C37_PausedKeptByControlCalls ==
  [][ (store.state = "paused" /\ ctl'.n = ctl.n + 1 /\ ctl'.op # "persist")
        => IF ControlCall("resume") THEN store'.state = "running" /\ ctl'.ret
           ELSE store'.state = "paused" ]_vars

\* C38: a pause_workflow or resume_workflow call changes nothing of the
\* persisted snapshot but its state: the steps, the execution order and the
\* metadata are what they were, and a call that returns false changes
\* nothing at all.
C38_PauseResumeKeepSnapshot ==
  [][ (ControlCall("pause") \/ ControlCall("resume"))
        => /\ store'.steps = store.steps
           /\ store'.execution_order = store.execution_order
           /\ store'.metadata = store.metadata
           /\ store'.workflow_id = store.workflow_id
           /\ ~ctl'.ret => store' = store ]_vars

\* C38 without the steps: the execution order, the metadata and the id are
\* kept, and a call that returns false changes nothing.
C38_PauseResumeKeepOrderAndMetadata ==
  [][ (ControlCall("pause") \/ ControlCall("resume"))
        => /\ store'.execution_order = store.execution_order
           /\ store'.metadata = store.metadata
           /\ store'.workflow_id = store.workflow_id
           /\ ~ctl'.ret => store' = store ]_vars

\* No thread is inside a call of the AgentManager.
Quiet == \A t \in Threads : th[t].pc = "idle"

\* C39: between the calls made on the AgentManager, whether they returned
\* or raised, no agent of the active set is INITIALIZING or RETIRED.
C39_ActiveAgentsUsable ==
  Quiet => \A a \in DOMAIN pool : pool[a] \notin {"initializing", "retired"}

\* The replace_agent call of thread t ends in this step, after its
\* retire_agent has taken the old agent out of the active set.
ReplaceEnds(t) ==
  /\ th[t].op = "replace"
  /\ th[t].pc \in {"spawn_check", "spawn_insert", "spawn_init", "replace_finish"}
  /\ th'[t].pc = "idle"

\* C40: with every Redis command succeeding, a replace_agent call that has
\* retired the old agent returns the new agent it has spawned; it does not
\* end with the old agent retired and no replacement for it.
C40_ReplaceAllOrNothing ==
  [][ \A t \in Threads :
        (ReplaceEnds(t) /\ bus'.errors = 0)
        => th'[t].ret = "agent" /\ th'[t].new \in DOMAIN agents' ]_vars

====
